---- MODULE Spec2Model ----
(***************************************************************************)
(* A model of the ResearchOS object store, the Subset condition evaluator  *)
(* and validator, the Dataset schema (validation, saving, loading, ids),   *)
(* the edges between pipeline objects, and the config graph of packages    *)
(* with the bridges between them.                                          *)
(*                                                                         *)
(* Python values are tagged records; every tag has its own field name so   *)
(* that values of different Python types are never compared field by       *)
(* field.  A call either returns or raises: RetB (a bool), RetV (a Python  *)
(* value), RetN (a node list) and Raise (the exception class name).        *)
(***************************************************************************)
EXTENDS Integers, Sequences, FiniteSets, TLC

VARIABLES
    G,                \* address graph of the dataset: set of <<parent, child>> edges
    vr_dataobjects,   \* table vr_dataobjects: rows in insertion (time) order
    data_values,      \* table data_values (+ the blob each hash names)
    objDict,          \* objDict[d]: the attribute names in d.__dict__
    nextAction,       \* number of the next Action to be created
    lastCall,         \* the last call made on a data object: its outcome and queued queries
    conditions,       \* Subset.conditions
    evalCall,         \* the last meets_conditions or get_subset call and its outcome
    objects,          \* ids of the research objects that exist in the store
    validateCall,     \* the last validate_conditions call and its outcome
    schemaCall,       \* the last validate_schema call and its outcome
    instances_list,   \* ResearchObjectHandler.instances_list (creation order)
    inputs,           \* inputs[p]: the inputs of Process p, in dict order
    outputs,          \* outputs[p]: the outputs of Process p, in dict order
    headers,          \* headers[lg]: the headers of Logsheet lg and whether they validate
    pipelineobjects_graph,  \* table pipelineobjects_graph: rows in insertion order
    linkCall,         \* the last make_all_edges or build_pl call and its outcome
    dag,              \* the config graph: its nodes and edges in insertion order
    bridgeCall,       \* the last bridge_packages or create_package_dag call and its outcome
    data_address_schemas,   \* table data_address_schemas: rows in insertion order
    dict_schema,      \* dict_schema[d]: __dict__["schema"] of Dataset d
    conn,             \* whether the module dataset.py has the global name conn
    uuidCall,         \* the _create_uuid call in progress: its loop and its outcome
    datasetCall       \* the last call of a Dataset method and its outcome

vars == <<G, vr_dataobjects, data_values, objDict, nextAction, lastCall,
          conditions, evalCall, objects, validateCall, schemaCall,
          instances_list, inputs, outputs, headers, pipelineobjects_graph, linkCall,
          dag, bridgeCall,
          data_address_schemas, dict_schema, conn, uuidCall, datasetCall>>

storeVars == <<vr_dataobjects, data_values, objDict, nextAction, lastCall>>
evalVars == <<G, conditions, evalCall>>
validateVars == <<objects, validateCall>>
schemaVars == <<schemaCall>>
pipelineVars == <<instances_list, inputs, outputs, headers, pipelineobjects_graph, linkCall>>
dagVars == <<dag, bridgeCall>>
datasetVars == <<data_address_schemas, dict_schema, conn, uuidCall, datasetCall>>
restVars == <<pipelineVars, dagVars, datasetVars>>

-----------------------------------------------------------------------------
(* Bounds *)

MaxActions == 3     \* Actions created in one behaviour of the store
MaxInt == 5         \* largest integer literal / stored integer
MaxKids == 2        \* longest child list of a generated and/or node
MaxSchemaLen == 3   \* longest schema handed to validate_schema
MaxPasses == 2      \* make_all_edges passes that create an Action in one behaviour

-----------------------------------------------------------------------------
(* Python values *)

PyNone == [t |-> "none"]
PyInt(k) == [t |-> "int", n |-> k]
PyBool(x) == [t |-> "bool", b |-> x]
PyStr(x) == [t |-> "str", s |-> x]
PyList(x) == [t |-> "list", e |-> x]
PySet(x) == [t |-> "set", m |-> x]
\* a dict keeps its keys in insertion order: k[i] is mapped to v[i]
PyDict(keys, vals) == [t |-> "dict", k |-> keys, v |-> vals]

RetB(x) == [kind |-> "return", bval |-> x]
RetV(x) == [kind |-> "return", pval |-> x]
RetN(x) == [kind |-> "return", nodes |-> x]
RetNone == [kind |-> "return"]
Raise(x) == [kind |-> "raise", exc |-> x]
Raised(r) == r.kind = "raise"

SeqToSet(s) == {s[i] : i \in DOMAIN s}

HasKey(d, key) == \E i \in DOMAIN d.k : d.k[i] = key
GetKey(d, key) == d.v[CHOOSE i \in DOMAIN d.k : d.k[i] = key]

\* bool is a subclass of int: True == 1, False == 0
IsNum(x) == x.t \in {"int", "bool"}
NumVal(x) == IF x.t = "int" THEN x.n ELSE IF x.b THEN 1 ELSE 0

RECURSIVE PyEq(_, _)
PyEq(x, y) ==
    IF IsNum(x) /\ IsNum(y) THEN NumVal(x) = NumVal(y)
    ELSE IF x.t # y.t THEN FALSE
    ELSE IF x.t = "none" THEN TRUE
    ELSE IF x.t = "str" THEN x.s = y.s
    ELSE IF x.t = "list" THEN
        /\ Len(x.e) = Len(y.e)
        /\ \A i \in DOMAIN x.e : PyEq(x.e[i], y.e[i])
    ELSE IF x.t = "set" THEN x.m = y.m
    ELSE x = y

\* "x is y": None, True, False and the small integers are singletons;
\* two lists or sets built separately are never the same object.
PyIs(x, y) ==
    IF x.t # y.t THEN FALSE
    ELSE IF x.t = "none" THEN TRUE
    ELSE IF x.t = "bool" THEN x.b = y.b
    ELSE IF x.t = "int" THEN x.n = y.n
    ELSE FALSE

\* x < y, x > y, x <= y, x >= y : defined between numbers only here
PyOrdered(x, y) == IsNum(x) /\ IsNum(y)

PyHashable(x) == x.t \in {"none", "int", "bool", "str"}

\* "x in c": RetB, or TypeError when c is no container (or x unhashable for a set)
PyIn(x, c) ==
    IF c.t = "list" THEN RetB(\E i \in DOMAIN c.e : PyEq(x, c.e[i]))
    ELSE IF c.t = "set" THEN
        IF PyHashable(x) THEN RetB(\E y \in c.m : PyEq(x, y)) ELSE Raise("TypeError")
    ELSE Raise("TypeError")

\* v[i] for a Python index i (0-based)
PyIndex(v, i) ==
    IF v.t = "list" THEN
        IF i + 1 \in DOMAIN v.e THEN RetV(v.e[i + 1]) ELSE Raise("IndexError")
    ELSE IF v.t = "dict" THEN Raise("KeyError")
    ELSE Raise("TypeError")

RECURSIVE JsonSerializable(_)
JsonSerializable(x) ==
    IF x.t \in {"none", "int", "bool", "str"} THEN TRUE
    ELSE IF x.t = "list" THEN \A i \in DOMAIN x.e : JsonSerializable(x.e[i])
    ELSE IF x.t = "dict" THEN \A i \in DOMAIN x.v : JsonSerializable(x.v[i])
    ELSE FALSE

-----------------------------------------------------------------------------
(* The store: vr_dataobjects and data_values *)

Nodes == {"DS1", "SB1", "TR1"}
NodeSeq == <<"DS1", "SB1", "TR1">>
VrIds == {"VR1", "VR2"}

\* DefaultAttrs(self).default_attrs: the built-in attribute names
default_attrs == {"id", "name"}

\* the attribute name under which load_dataobject_vrs stores a variable
VrName(v) == IF v = "VR1" THEN "age" ELSE "mass"
VrOfName(a) == IF a = "age" THEN "VR1" ELSE "VR2"
VrNames == {VrName(v) : v \in VrIds}

RowsFor(tbl, d, v) ==
    SelectSeq(tbl, LAMBDA r : r.dataobject_id = d /\ r.vr_id = v)

\* sql_order_result(..., single = True): of the rows of one (dataobject_id,
\* vr_id) pair only the one of the most recent Action counts; the WHERE
\* clause is_active = 1 then keeps or drops it.
sql_order_result_active(tbl, d, v) ==
    LET rows == RowsFor(tbl, d, v) IN
    IF rows = <<>> THEN <<>>
    ELSE IF rows[Len(rows)].is_active = 1 THEN <<rows[Len(rows)].action_id>>
    ELSE <<>>

sql_order_result_value(tbl, d, v) ==
    LET rows == RowsFor(tbl, d, v) IN
    IF rows = <<>> THEN <<>> ELSE <<rows[Len(rows)].value>>

\* mutant: the association check of step 1 is skipped
load_vr_value_on_unchecked(assoc, vals, d, v) ==
    LET hit == sql_order_result_value(vals, d, v) IN
    IF hit = <<>> THEN Raise("TypeError") ELSE RetV(hit[1])

\* DataObject.load_vr_value on the given tables: raises ValueError when the
\* pair has no active association, returns the unpickled value otherwise.
load_vr_value_on(assoc, vals, d, v) ==
    LET action_ids == sql_order_result_active(assoc, d, v) IN
    IF Len(action_ids) = 0 THEN Raise("ValueError")
    ELSE LET hit == sql_order_result_value(vals, d, v) IN
         IF hit = <<>> THEN Raise("TypeError")    \* fetchone() is None
         ELSE RetV(hit[1])

load_vr_value(d, v) == load_vr_value_on(vr_dataobjects, data_values, d, v)

\* sql_order_result(..., ["dataobject_id", "vr_id"], single = True) over the
\* rows of one data object: per variable the row of the most recent Action,
\* kept when is_active = 1; the vr_id column, in row order.
RECURSIVE sql_order_result_vr_ids(_, _, _)
sql_order_result_vr_ids(tbl, d, i) ==
    IF i > Len(tbl) THEN <<>>
    ELSE LET r == tbl[i]
             latest == \A j \in DOMAIN tbl :
                          (j > i /\ tbl[j].dataobject_id = d) => tbl[j].vr_id # r.vr_id
         IN (IF r.dataobject_id = d /\ latest /\ r.is_active = 1
             THEN <<r.vr_id>> ELSE <<>>)
            \o sql_order_result_vr_ids(tbl, d, i + 1)

\* mutant: the query is run as written, without sql_order_result
load_dataobject_vrs_raw_query(tbl, d) ==
    LET rows == SelectSeq(tbl, LAMBDA r : r.dataobject_id = d /\ r.is_active = 1)
    IN [i \in DOMAIN rows |-> rows[i].vr_id]

\* DataObject.load_dataobject_vrs: the vr_ids the object is given attributes for
load_dataobject_vrs(tbl, d) == sql_order_result_vr_ids(tbl, d, 1)

-----------------------------------------------------------------------------
(* The address graph *)

Parents(g, n) == {e[1] : e \in {x \in g : x[2] = n}}

RECURSIVE AncestorsUpTo(_, _, _)
AncestorsUpTo(g, n, k) ==
    IF k = 0 THEN {}
    ELSE LET ps == Parents(g, n) IN
         ps \cup UNION {AncestorsUpTo(g, p, k - 1) : p \in ps}

\* nx.ancestors(G, n)
ancestors(g, n) == AncestorsUpTo(g, n, Cardinality(Nodes))

\* every order in which the elements of the set S can be iterated
Orders(S) ==
    {s \in [1..Cardinality(S) -> S] : \A i, j \in DOMAIN s : i # j => s[i] # s[j]}

\* nx.topological_sort(G): some order in which every edge goes forward
topological_sorts(g) ==
    {s \in Orders(Nodes) :
        \A e \in g : \E i, j \in DOMAIN s : i < j /\ s[i] = e[1] /\ s[j] = e[2]}

\* The iteration order of a set of node ids is fixed by the process (hash
\* seed): perm lists all node ids in that order, and a set iterates in the
\* order perm gives to its elements.
IterOrder(perm, S) == SelectSeq(perm, LAMBDA x : x \in S)

\* for every node, the order in which the set nx.ancestors(G, node) iterates
AncOrder(g, perm) == [n \in Nodes |-> IterOrder(perm, ancestors(g, n))]
AncOrders(g) == {AncOrder(g, perm) : perm \in Orders(Nodes)}

-----------------------------------------------------------------------------
(* Subset.meets_conditions *)

numeric_logic_options == {">", "<", ">=", "<="}
any_type_logic_options ==
    {"==", "=", "!=", "in", "not in", "is", "is not", "contains", "not contains"}
logic_options == numeric_logic_options \cup any_type_logic_options
plural_logic == {"in", "not in", "contains", "not contains"}

NotB(r) == IF Raised(r) THEN r ELSE RetB(~r.bval)

\* lines 151-190: the operator applied to the loaded value and the literal
apply_logic(logic, vr_value, value) ==
    LET op == IF logic.t = "str" THEN logic.s ELSE "" IN
    IF op \in plural_logic /\ op = "contains" /\ vr_value.t = "none"
        THEN RetB(FALSE)
    ELSE IF op \in plural_logic /\ op = "not contains"
            /\ vr_value.t = "none" /\ value.t # "none"
        THEN RetB(TRUE)
    ELSE IF op \in plural_logic /\ op = "in" /\ value.t = "none"
        THEN RetB(FALSE)
    ELSE IF op \in plural_logic /\ op = "not in" /\ value.t = "none"
        THEN RetB(TRUE)
    ELSE IF op \in numeric_logic_options THEN
        IF ~PyOrdered(vr_value, value) THEN Raise("TypeError")
        ELSE IF op = ">" THEN RetB(NumVal(vr_value) > NumVal(value))
        ELSE IF op = "<" THEN RetB(NumVal(vr_value) < NumVal(value))
        ELSE IF op = ">=" THEN RetB(NumVal(vr_value) >= NumVal(value))
        ELSE RetB(NumVal(vr_value) <= NumVal(value))
    ELSE IF op \in {"==", "="} THEN RetB(PyEq(vr_value, value))
    ELSE IF op = "!=" THEN RetB(~PyEq(vr_value, value))
    ELSE IF op = "in" THEN PyIn(vr_value, value)
    ELSE IF op = "not in" THEN NotB(PyIn(vr_value, value))
    ELSE IF op = "is" THEN RetB(PyIs(vr_value, value))
    ELSE IF op = "is not" THEN RetB(~PyIs(vr_value, value))
    ELSE IF op = "contains" THEN PyIn(value, vr_value)
    ELSE IF op = "not contains" THEN NotB(PyIn(value, vr_value))
    ELSE RetB(FALSE)

\* vr_value[1] == False, on what load_vr_value returned
second_is_false(r) ==
    LET f == PyIndex(r.pval, 1) IN
    IF Raised(f) THEN f ELSE RetB(PyEq(f.pval, PyBool(FALSE)))

\* lines 138-144: the first ancestor, in iteration order, whose loaded value
\* does not have False as its second element
RECURSIVE anc_loop(_, _, _)
anc_loop(ancs, i, vr_id) ==
    IF i > Len(ancs) THEN [kind |-> "notfound"]
    ELSE LET r == load_vr_value(ancs[i], vr_id) IN
         IF Raised(r) THEN r
         ELSE LET f == second_is_false(r) IN
              IF Raised(f) THEN f
              ELSE IF f.bval THEN anc_loop(ancs, i + 1, vr_id)
              ELSE [kind |-> "found", anc |-> ancs[i]]

RECURSIVE meets_conditions(_, _, _)
RECURSIVE and_loop(_, _, _, _)
RECURSIVE or_any(_, _, _, _, _)

\* lines 119-122
and_loop(node, kids, i, ord) ==
    IF i > Len(kids) THEN RetB(TRUE)
    ELSE LET r == meets_conditions(node, kids[i], ord) IN
         IF Raised(r) THEN r
         ELSE IF ~r.bval THEN RetB(FALSE)
         ELSE and_loop(node, kids, i + 1, ord)

\* mutant: the result of the last child stands for the whole "or"
RECURSIVE or_any_last(_, _, _, _, _)
or_any_last(node, kids, i, acc, ord) ==
    IF i > Len(kids) THEN RetB(acc)
    ELSE LET r == meets_conditions(node, kids[i], ord) IN
         IF Raised(r) THEN r
         ELSE or_any_last(node, kids, i + 1, r.bval, ord)

\* line 125: the list is built in full before any() looks at it
or_any(node, kids, i, acc, ord) ==
    IF i > Len(kids) THEN RetB(acc)
    ELSE LET r == meets_conditions(node, kids[i], ord) IN
         IF Raised(r) THEN r
         ELSE or_any(node, kids, i + 1, acc \/ r.bval, ord)

\* lines 129-190
leaf_conditions(node, cond, ord) ==
    LET c0 == PyIndex(cond, 0)
        c1 == PyIndex(cond, 1)
        c2 == PyIndex(cond, 2)
    IN
    IF Raised(c0) THEN c0
    ELSE IF Raised(c1) THEN c1
    ELSE IF Raised(c2) THEN c2
    ELSE IF c0.pval.t # "str" THEN Raise("TypeError")
    ELSE
    LET vr_id == c0.pval.s
        r == load_vr_value(node, vr_id)
    IN
    IF Raised(r) THEN r
    ELSE LET f == second_is_false(r) IN
    IF Raised(f) THEN f
    ELSE IF f.bval THEN
        LET a == anc_loop(ord[node], 1, vr_id) IN
        IF Raised(a) THEN a
        ELSE IF a.kind = "notfound" THEN RetB(FALSE)
        ELSE meets_conditions(a.anc, cond, ord)
    ELSE apply_logic(c1.pval, PyIndex(r.pval, 0).pval, c2.pval)

meets_conditions(node, cond, ord) ==
    IF cond.t = "dict" /\ HasKey(cond, "and") THEN
        IF GetKey(cond, "and").t # "list" THEN Raise("TypeError")
        ELSE and_loop(node, GetKey(cond, "and").e, 1, ord)
    ELSE IF cond.t = "dict" /\ HasKey(cond, "or") THEN
        IF GetKey(cond, "or").t # "list" THEN Raise("TypeError")
        ELSE or_any(node, GetKey(cond, "or").e, 1, FALSE, ord)
    ELSE leaf_conditions(node, cond, ord)

-----------------------------------------------------------------------------
(* Subset.get_subset *)

\* mutant: the ancestors of a matching node are left out
curr_nodes_without_ancestors(node_id, ord) == <<node_id>>

\* lines 110-111: the node, then its ancestors in the set's iteration order
curr_nodes(node_id, ord) == <<node_id>> \o ord[node_id]

\* lines 104-112
RECURSIVE get_subset_loop(_, _, _, _)
get_subset_loop(sorted_nodes, i, nodes_for_subgraph, ord) ==
    IF i > Len(sorted_nodes) THEN RetN(nodes_for_subgraph)
    ELSE LET m == meets_conditions(sorted_nodes[i], conditions, ord) IN
         IF Raised(m) THEN m
         ELSE IF ~m.bval
             THEN get_subset_loop(sorted_nodes, i + 1, nodes_for_subgraph, ord)
         ELSE get_subset_loop(sorted_nodes, i + 1,
                  nodes_for_subgraph \o
                      SelectSeq(curr_nodes(sorted_nodes[i], ord),
                                LAMBDA x : x \notin SeqToSet(nodes_for_subgraph)),
                  ord)

\* lines 92-113; G.subgraph keeps the listed nodes and the edges among them
get_subset(sorted_nodes, ord) == get_subset_loop(sorted_nodes, 1, <<>>, ord)

subgraph_edges(g, ns) == {e \in g : e[1] \in ns /\ e[2] \in ns}

-----------------------------------------------------------------------------
(* Inputs of the evaluator: graphs, store contents, condition trees *)

Graphs ==
    { {<<"DS1", "SB1">>, <<"SB1", "TR1">>},       \* Dataset > Subject > Trial
      {<<"DS1", "SB1">>, <<"DS1", "TR1">>} }      \* both directly under the dataset

NoAssoc == [t |-> "noassoc"]

\* what a (data object, VR1) pair can hold
StoredOptions ==
    { NoAssoc,
      PyNone,
      PyInt(MaxInt),
      PyList(<<PyInt(MaxInt), PyBool(TRUE)>>),
      PyList(<<PyInt(MaxInt), PyBool(FALSE)>>),
      PyList(<<PyNone, PyBool(TRUE)>>) }

\* the tables after each associated node had its VR1 attribute written once,
\* one Action per write
AssocRows(a) ==
    SelectSeq([i \in 1..Len(NodeSeq) |->
                  [action_id |-> i, dataobject_id |-> NodeSeq[i], vr_id |-> "VR1",
                   is_active |-> IF a[NodeSeq[i]] = NoAssoc THEN 0 ELSE 1]],
              LAMBDA r : r.is_active = 1)

ValueRows(a) ==
    SelectSeq([i \in 1..Len(NodeSeq) |->
                  [action_id |-> i, dataobject_id |-> NodeSeq[i], vr_id |-> "VR1",
                   value |-> a[NodeSeq[i]]]],
              LAMBDA r : r.value # NoAssoc)

Leaf(v, op, lit) == PyList(<<PyStr(v), PyStr(op), lit>>)
AndOf(kids) == PyDict(<<"and">>, <<PyList(kids)>>)
OrOf(kids) == PyDict(<<"or">>, <<PyList(kids)>>)
EmptyDict == PyDict(<<>>, <<>>)

\* all_default_attrs["conditions"]
default_conditions == EmptyDict

EvalLeaves ==
    { Leaf("VR1", ">", PyInt(3)),
      Leaf("VR1", "<", PyInt(3)),
      Leaf("VR1", "==", PyInt(MaxInt)),
      Leaf("VR1", "contains", PyInt(MaxInt)),
      Leaf("VR1", "contains", PyNone),
      Leaf("VR1", "not contains", PyInt(MaxInt)),
      Leaf("VR1", "not contains", PyNone),
      Leaf("VR1", "in", PyNone),
      Leaf("VR1", "not in", PyNone),
      Leaf("VR1", "in", PyList(<<PyInt(3), PyInt(MaxInt)>>)),
      Leaf("VR1", "is", PyNone),
      Leaf("VR2", "==", PyInt(MaxInt)) }

KidPool ==
    { Leaf("VR1", ">", PyInt(3)),
      Leaf("VR1", "is", PyNone) }

KidLists == UNION {[1..n -> KidPool] : n \in 0..MaxKids}

NestedConds ==
    { AndOf(<<Leaf("VR1", ">", PyInt(3)),
              OrOf(<<Leaf("VR1", "<", PyInt(3)), Leaf("VR1", "==", PyInt(MaxInt))>>)>>),
      OrOf(<<AndOf(<<Leaf("VR1", ">", PyInt(3)), Leaf("VR1", "is", PyNone)>>),
             Leaf("VR1", "==", PyInt(MaxInt))>>),
      OrOf(<<Leaf("VR1", "is", PyNone), AndOf(<<>>)>>),
      AndOf(<<default_conditions>>) }

CondSet ==
    EvalLeaves \cup {AndOf(k) : k \in KidLists} \cup {OrOf(k) : k \in KidLists}
        \cup NestedConds \cup {default_conditions}

-----------------------------------------------------------------------------
(* Idle values of the parts a specification does not exercise *)

NoCall == [op |-> "none"]

StoreIdle ==
    /\ vr_dataobjects = <<>>
    /\ data_values = <<>>
    /\ objDict = [d \in Nodes |-> default_attrs]
    /\ nextAction = 1
    /\ lastCall = NoCall

EvalIdle ==
    /\ G = {}
    /\ conditions = default_conditions
    /\ evalCall = NoCall

ValidateIdle ==
    /\ objects = {}
    /\ validateCall = NoCall

SchemaIdle == schemaCall = NoCall

PipelineIdle ==
    /\ instances_list = <<>>
    /\ inputs = <<>>
    /\ outputs = <<>>
    /\ headers = <<>>
    /\ pipelineobjects_graph = <<>>
    /\ linkCall = NoCall

DagIdle ==
    /\ dag = [nodes |-> <<>>, edges |-> <<>>]
    /\ bridgeCall = NoCall

Datasets == {"DS1", "DS2"}

DatasetIdle ==
    /\ data_address_schemas = <<>>
    /\ dict_schema = [d \in Datasets |-> PyNone]
    /\ conn = FALSE
    /\ uuidCall = NoCall
    /\ datasetCall = NoCall

RestIdle == PipelineIdle /\ DagIdle /\ DatasetIdle

-----------------------------------------------------------------------------
(* SpecSubset: meets_conditions and get_subset on a fixed graph and store *)

InitSubset ==
    /\ G \in Graphs
    /\ \E a \in [Nodes -> StoredOptions] :
        /\ vr_dataobjects = AssocRows(a)
        /\ data_values = ValueRows(a)
        /\ objDict = [d \in Nodes |->
                        default_attrs \cup
                            (IF a[d] = NoAssoc THEN {} ELSE {VrName("VR1")})]
    /\ nextAction = Len(NodeSeq) + 1
    /\ lastCall = NoCall
    /\ conditions \in CondSet
    /\ evalCall = NoCall
    /\ ValidateIdle
    /\ SchemaIdle
    /\ RestIdle

MeetsConditions(node, ord) ==
    /\ evalCall' = [op |-> "meets_conditions", node |-> node, ord |-> ord,
                    out |-> meets_conditions(node, conditions, ord)]
    /\ UNCHANGED <<G, conditions, storeVars, validateVars, schemaVars, restVars>>

GetSubset(sorted_nodes, ord) ==
    /\ evalCall' = [op |-> "get_subset", sorted |-> sorted_nodes, ord |-> ord,
                    out |-> get_subset(sorted_nodes, ord)]
    /\ UNCHANGED <<G, conditions, storeVars, validateVars, schemaVars, restVars>>

NextSubset ==
    \/ \E node \in Nodes, ord \in AncOrders(G) : MeetsConditions(node, ord)
    \/ \E sorted_nodes \in topological_sorts(G), ord \in AncOrders(G) :
           GetSubset(sorted_nodes, ord)

SpecSubset == InitSubset /\ [][NextSubset]_vars

-----------------------------------------------------------------------------
(* Spec: attribute writes, deletes and reads on the data objects *)

StoreObjs == {"SB1", "TR1"}
WriteValues == {PyNone, PyInt(MaxInt)}
AttrNames == default_attrs \cup VrNames \cup {"height"}

\* the query "vr_to_dobj_insert_inactive" with params (action id, object id,
\* variable id): one more row, inactive
vr_to_dobj_insert_inactive(tbl, params) ==
    Append(tbl, [action_id |-> params[1], dataobject_id |-> params[2],
                 vr_id |-> params[3], is_active |-> 0])

\* Action.execute: the queued queries are applied in queuing order
RECURSIVE execute(_, _)
execute(tbl, queries) ==
    IF queries = <<>> THEN tbl
    ELSE execute(vr_to_dobj_insert_inactive(tbl, queries[1].params), Tail(queries))

InitStore ==
    /\ StoreIdle
    /\ EvalIdle
    /\ ValidateIdle
    /\ SchemaIdle
    /\ RestIdle

\* writing an attribute: a new Action, a new active association and the value
SetAttr(d, v, val) ==
    /\ nextAction <= MaxActions
    /\ vr_dataobjects' = Append(vr_dataobjects,
           [action_id |-> nextAction, dataobject_id |-> d, vr_id |-> v,
            is_active |-> 1])
    /\ data_values' = Append(data_values,
           [action_id |-> nextAction, dataobject_id |-> d, vr_id |-> v,
            value |-> val])
    /\ objDict' = [objDict EXCEPT ![d] = @ \cup {VrName(v)}]
    /\ nextAction' = nextAction + 1
    /\ lastCall' = [op |-> "__setattr__", obj |-> d, name |-> VrName(v),
                    out |-> RetNone, queries |-> <<>>]
    /\ UNCHANGED <<evalVars, validateVars, schemaVars, restVars>>

DelAttrRaises(d, name) ==
    /\ lastCall' = [op |-> "__delattr__", obj |-> d, name |-> name,
                    out |-> Raise("AttributeError"), queries |-> <<>>]
    /\ UNCHANGED <<vr_dataobjects, data_values, objDict, nextAction>>

\* mutant: the delete overwrites the rows of the pair instead of adding one
DelAttrOverwriting(d, name) ==
    /\ IF name \in default_attrs THEN DelAttrRaises(d, name)
       ELSE IF name \notin objDict[d] THEN DelAttrRaises(d, name)
       ELSE
        LET vr_id == VrOfName(name)
            params == <<nextAction, d, vr_id>>
            queries == <<[query |-> "vr_to_dobj_insert_inactive", params |-> params]>>
            kept == SelectSeq(vr_dataobjects,
                              LAMBDA r : ~(r.dataobject_id = d /\ r.vr_id = vr_id))
        IN
        /\ nextAction <= MaxActions
        /\ nextAction' = nextAction + 1
        /\ vr_dataobjects' = execute(kept, queries)
        /\ objDict' = [objDict EXCEPT ![d] = @ \ {name}]
        /\ lastCall' = [op |-> "__delattr__", obj |-> d, name |-> name,
                        out |-> RetNone, queries |-> queries]
        /\ UNCHANGED data_values
    /\ UNCHANGED <<evalVars, validateVars, schemaVars, restVars>>

\* DataObject.__delattr__(name) with no action passed in
DelAttr(d, name) ==
    /\ IF name \in default_attrs THEN DelAttrRaises(d, name)
       ELSE IF name \notin objDict[d] THEN DelAttrRaises(d, name)
       ELSE
        LET vr_id == VrOfName(name)
            params == <<nextAction, d, vr_id>>
            queries == <<[query |-> "vr_to_dobj_insert_inactive", params |-> params]>>
        IN
        /\ nextAction <= MaxActions
        /\ nextAction' = nextAction + 1
        /\ vr_dataobjects' = execute(vr_dataobjects, queries)
        /\ objDict' = [objDict EXCEPT ![d] = @ \ {name}]
        /\ lastCall' = [op |-> "__delattr__", obj |-> d, name |-> name,
                        out |-> RetNone, queries |-> queries]
        /\ UNCHANGED data_values
    /\ UNCHANGED <<evalVars, validateVars, schemaVars, restVars>>

LoadVrValue(d, v) ==
    /\ lastCall' = [op |-> "load_vr_value", obj |-> d, name |-> VrName(v),
                    out |-> load_vr_value(d, v), queries |-> <<>>]
    /\ UNCHANGED <<vr_dataobjects, data_values, objDict, nextAction>>
    /\ UNCHANGED <<evalVars, validateVars, schemaVars, restVars>>

\* DataObject.load_dataobject_vrs(action): every variable read as active
\* becomes an attribute of the object
LoadDataobjectVrs(d) ==
    LET vr_ids == load_dataobject_vrs(vr_dataobjects, d) IN
    /\ objDict' = [objDict EXCEPT ![d] = @ \cup {VrName(v) : v \in SeqToSet(vr_ids)}]
    /\ lastCall' = [op |-> "load_dataobject_vrs", obj |-> d, vr_ids |-> vr_ids,
                    out |-> RetNone, queries |-> <<>>]
    /\ UNCHANGED <<vr_dataobjects, data_values, nextAction>>
    /\ UNCHANGED <<evalVars, validateVars, schemaVars, restVars>>

Next ==
    \/ \E d \in StoreObjs, v \in VrIds, val \in WriteValues : SetAttr(d, v, val)
    \/ \E d \in StoreObjs, name \in AttrNames : DelAttr(d, name)
    \/ \E d \in StoreObjs, v \in VrIds : LoadVrValue(d, v)
    \/ \E d \in StoreObjs : LoadDataobjectVrs(d)

Spec == InitStore /\ [][Next]_vars

\* C10: __delattr__ raises for a built-in or absent attribute, queueing no
\* mutation and changing neither the attributes nor the associations;
\* otherwise it queues and executes exactly one insertion of an inactive row
\* (action id, object id, variable id) and removes the attribute, and every
\* earlier association row is still there.
C10_DelAttr ==
    [][lastCall'.op = "__delattr__" =>
        LET d == lastCall'.obj
            name == lastCall'.name
        IN
        IF name \in default_attrs \/ name \notin objDict[d] THEN
            /\ Raised(lastCall'.out)
            /\ lastCall'.queries = <<>>
            /\ objDict' = objDict
            /\ vr_dataobjects' = vr_dataobjects
            /\ data_values' = data_values
        ELSE
            /\ ~Raised(lastCall'.out)
            /\ Len(lastCall'.queries) = 1
            /\ lastCall'.queries[1].query = "vr_to_dobj_insert_inactive"
            /\ lastCall'.queries[1].params = <<nextAction, d, VrOfName(name)>>
            /\ vr_dataobjects' =
                   Append(vr_dataobjects,
                          [action_id |-> nextAction, dataobject_id |-> d,
                           vr_id |-> VrOfName(name), is_active |-> 0])
            /\ objDict' = [objDict EXCEPT ![d] = @ \ {name}]
            /\ data_values' = data_values
    ]_vars

\* a delete went through and the row of the earlier write is still there
C10_Witness ==
    /\ lastCall.op = "__delattr__"
    /\ ~Raised(lastCall.out)
    /\ lastCall.name \notin objDict[lastCall.obj]
    /\ \E i, j \in DOMAIN vr_dataobjects :
        /\ i < j
        /\ j = Len(vr_dataobjects)
        /\ vr_dataobjects[i].dataobject_id = lastCall.obj
        /\ vr_dataobjects[j].dataobject_id = lastCall.obj
        /\ vr_dataobjects[i].vr_id = vr_dataobjects[j].vr_id
        /\ vr_dataobjects[i].is_active = 1
        /\ vr_dataobjects[j].is_active = 0

\* the rows of table tbl that Action a wrote
RowsOfAction(tbl, a) == SelectSeq(tbl, LAMBDA r : r.action_id = a)

\* the pair (d, name) was written and its attribute has been deleted since
WrittenThenDeleted(d, name) ==
    /\ name \in VrNames
    /\ name \notin objDict[d]
    /\ \E i \in DOMAIN data_values :
        /\ data_values[i].dataobject_id = d
        /\ data_values[i].vr_id = VrOfName(name)

\* C11: a read of V on D after writes and a delete of V on D raises the
\* 'not associated' ValueError instead of returning the earlier value, and
\* the association row of every earlier write is still in the table, active,
\* and is the one row found under its Action's id.
C11_DeleteThenReadNotAssociated ==
    (lastCall.op = "load_vr_value" /\ WrittenThenDeleted(lastCall.obj, lastCall.name)) =>
        /\ lastCall.out = Raise("ValueError")
        /\ \A i \in DOMAIN data_values :
            (data_values[i].dataobject_id = lastCall.obj
                /\ data_values[i].vr_id = VrOfName(lastCall.name)) =>
            RowsOfAction(vr_dataobjects, data_values[i].action_id) =
                <<[action_id |-> data_values[i].action_id,
                   dataobject_id |-> lastCall.obj,
                   vr_id |-> VrOfName(lastCall.name), is_active |-> 1]>>

\* two writes of a variable, its delete, then the read
C11_Witness ==
    /\ lastCall.op = "load_vr_value"
    /\ WrittenThenDeleted(lastCall.obj, lastCall.name)
    /\ Raised(lastCall.out)
    /\ Len(RowsFor(vr_dataobjects, lastCall.obj, VrOfName(lastCall.name))) = 3

\* the Actions whose association of (d, v) a reader treats as active
ActiveFor(d, v) == SeqToSet(sql_order_result_active(vr_dataobjects, d, v))

LatestRow(d, v) ==
    LET rows == RowsFor(vr_dataobjects, d, v) IN rows[Len(rows)]

-----------------------------------------------------------------------------
(* Claims about get_subset and meets_conditions, under SpecSubset *)

IsSubsetCall == evalCall.op = "get_subset"
IsMeetsCall == evalCall.op = "meets_conditions"
IsLeafCall == IsMeetsCall /\ conditions.t = "list"
LeafVr == conditions.e[1].s
LeafLogic == conditions.e[2].s
LeafValue == conditions.e[3]

\* the nodes on which the condition tree evaluates to True in this call
Satisfying(ord) ==
    {n \in Nodes : meets_conditions(n, conditions, ord) = RetB(TRUE)}

\* C1: the node set of the subgraph get_subset returns is exactly the nodes
\* that satisfy the condition tree together with all of their ancestors.
C1_SubsetIsSatisfyingPlusAncestors ==
    (IsSubsetCall /\ ~Raised(evalCall.out)) =>
        LET sat == Satisfying(evalCall.ord) IN
        SeqToSet(evalCall.out.nodes) =
            sat \cup UNION {ancestors(G, n) : n \in sat}

\* a returned subgraph that holds a node only because it is an ancestor, and
\* leaves another node out
C1_Witness ==
    /\ IsSubsetCall
    /\ ~Raised(evalCall.out)
    /\ \E n \in SeqToSet(evalCall.out.nodes) : n \notin Satisfying(evalCall.ord)
    /\ \E n \in Nodes : n \notin SeqToSet(evalCall.out.nodes)

KidResults(node, kids, ord) ==
    [i \in DOMAIN kids |-> meets_conditions(node, kids[i], ord)]
AllReturn(rs) == \A i \in DOMAIN rs : ~Raised(rs[i])
OnlyKey(c, key) == c.t = "dict" /\ c.k = <<key>> /\ c.v[1].t = "list"

\* C2: when every child evaluates to a boolean, {"and": children} is the
\* conjunction and {"or": children} the disjunction of the children's
\* results (empty "and" true, empty "or" false), nested children included.
C2_AndOrAreConjunctionDisjunction ==
    IsMeetsCall =>
        /\ OnlyKey(conditions, "and") =>
            LET rs == KidResults(evalCall.node, conditions.v[1].e, evalCall.ord) IN
            AllReturn(rs) => evalCall.out = RetB(\A i \in DOMAIN rs : rs[i].bval)
        /\ OnlyKey(conditions, "or") =>
            LET rs == KidResults(evalCall.node, conditions.v[1].e, evalCall.ord) IN
            AllReturn(rs) => evalCall.out = RetB(\E i \in DOMAIN rs : rs[i].bval)

\* an "or" over a true and a false child, one of them itself an and/or node
C2_Witness ==
    /\ IsMeetsCall
    /\ OnlyKey(conditions, "or")
    /\ LET rs == KidResults(evalCall.node, conditions.v[1].e, evalCall.ord) IN
        /\ AllReturn(rs)
        /\ \E i, j \in DOMAIN rs : rs[i].bval /\ ~rs[j].bval
        /\ \E i \in DOMAIN rs : conditions.v[1].e[i].t = "dict"
    /\ evalCall.out = RetB(TRUE)

HasActive(d, v) == sql_order_result_active(vr_dataobjects, d, v) # <<>>
AncestorsWith(n, v) == {a \in ancestors(G, n) : HasActive(a, v)}

\* C3: a leaf on a node without an active association for V is false when
\* no ancestor has one, and has the result of the same leaf on the ancestor
\* when exactly one ancestor has one.
C3_AncestorFallback ==
    (IsLeafCall /\ ~HasActive(evalCall.node, LeafVr)) =>
        LET with == AncestorsWith(evalCall.node, LeafVr) IN
        /\ with = {} => evalCall.out = RetB(FALSE)
        /\ Cardinality(with) = 1 =>
            evalCall.out =
                meets_conditions(CHOOSE a \in with : TRUE, conditions, evalCall.ord)

\* C4: reading a variable without an active association gives an outcome
\* other than that of reading a stored null, and the evaluation of the leaf
\* goes on to the ancestors instead of ending with that outcome.
C4_NotAssociatedStartsFallback ==
    (IsLeafCall /\ ~HasActive(evalCall.node, LeafVr)) =>
        /\ load_vr_value(evalCall.node, LeafVr) # RetV(PyNone)
        /\ evalCall.out # load_vr_value(evalCall.node, LeafVr)

\* C5: with an active association, "contains" is false when the stored value
\* is null, and "not contains" is true only when the stored value is null
\* and the literal is not.
C5_ContainsNullHandling ==
    (IsLeafCall /\ HasActive(evalCall.node, LeafVr)) =>
        LET stored == load_vr_value(evalCall.node, LeafVr).pval IN
        /\ (LeafLogic = "contains" /\ stored = PyNone) => evalCall.out = RetB(FALSE)
        /\ (LeafLogic = "not contains" /\ evalCall.out = RetB(TRUE)) =>
            (stored = PyNone /\ LeafValue # PyNone)

\* C6: with an active association and a null literal, "in" is false and
\* "not in" is true whatever the stored value.
C6_InNotInNullLiteral ==
    (IsLeafCall /\ HasActive(evalCall.node, LeafVr) /\ LeafValue = PyNone) =>
        /\ LeafLogic = "in" => evalCall.out = RetB(FALSE)
        /\ LeafLogic = "not in" => evalCall.out = RetB(TRUE)

-----------------------------------------------------------------------------
(* Subset.validate_conditions *)

\* IDCreator.is_ro_id: a two-letter upper-case type prefix, then the suffix
WellFormedIds == {"VR1", "VR2", "VR9"}
is_ro_id(x) == x.t = "str" /\ x.s \in WellFormedIds

\* ResearchObjectHandler.object_exists
object_exists(x, objs) == x.s \in objs

\* isinstance(x, int): bool is a subclass of int
isinstance_int(x) == x.t \in {"int", "bool"}

\* x in logic_options, x in numeric_logic_options (tuples of str)
in_options(x, options) == x.t = "str" /\ x.s \in options

\* mutant: a numeric operator is let through with any literal
validate_leaf_any_literal(cond, objs) ==
    IF Len(cond.e) # 3 THEN Raise("ValueError")
    ELSE IF ~is_ro_id(cond.e[1]) THEN Raise("ValueError")
    ELSE IF ~object_exists(cond.e[1], objs) THEN Raise("ValueError")
    ELSE IF ~in_options(cond.e[2], logic_options) THEN Raise("ValueError")
    ELSE IF ~JsonSerializable(cond.e[3]) THEN Raise("ValueError")
    ELSE RetNone

\* lines 58-73
validate_leaf(cond, objs) ==
    IF Len(cond.e) # 3 THEN Raise("ValueError")
    ELSE IF ~is_ro_id(cond.e[1]) THEN Raise("ValueError")
    ELSE IF ~object_exists(cond.e[1], objs) THEN Raise("ValueError")
    ELSE IF ~in_options(cond.e[2], logic_options) THEN Raise("ValueError")
    ELSE IF in_options(cond.e[2], numeric_logic_options) /\ ~isinstance_int(cond.e[3])
        THEN Raise("ValueError")
    ELSE IF ~JsonSerializable(cond.e[3]) THEN Raise("ValueError")
    ELSE RetNone

RECURSIVE validate_conditions(_, _, _)
RECURSIVE validate_items(_, _, _, _)
RECURSIVE validate_list(_, _, _, _)

\* line 90: the children of one key, in order
validate_list(kids, i, objs, default) ==
    IF i > Len(kids) THEN RetNone
    ELSE LET r == validate_conditions(kids[i], objs, default) IN
         IF Raised(r) THEN r ELSE validate_list(kids, i + 1, objs, default)

\* lines 83-90: the items of the dict, in insertion order
validate_items(cond, i, objs, default) ==
    IF i > Len(cond.k) THEN RetNone
    ELSE IF cond.k[i] \notin {"and", "or"} THEN Raise("ValueError")
    ELSE IF cond.v[i].t # "list" THEN Raise("ValueError")
    ELSE LET r == validate_list(cond.v[i].e, 1, objs, default) IN
         IF Raised(r) THEN r ELSE validate_items(cond, i + 1, objs, default)

\* lines 40-90
validate_conditions(cond, objs, default) ==
    IF PyEq(cond, default) THEN RetNone
    ELSE IF cond.t = "list" THEN validate_leaf(cond, objs)
    ELSE IF cond.t # "dict" THEN Raise("ValueError")
    ELSE IF ~HasKey(cond, "and") /\ ~HasKey(cond, "or") THEN Raise("ValueError")
    ELSE IF HasKey(cond, "and") /\ HasKey(cond, "or") THEN Raise("ValueError")
    ELSE validate_items(cond, 1, objs, default)

-----------------------------------------------------------------------------
(* SpecValidate: variables are created, condition trees are validated *)

LeafVrInputs == {PyStr("VR1"), PyStr("VR9"), PyStr("vr 1")}
LeafLogicInputs == {PyStr(o) : o \in logic_options \cup {"~", "<>"}}
LeafValueInputs ==
    {PyInt(3), PyBool(TRUE), PyNone, PyStr("a"), PyList(<<PyInt(3)>>), PySet({3})}

LeafInputs ==
    {PyList(<<v, o, l>>) : v \in LeafVrInputs, o \in LeafLogicInputs, l \in LeafValueInputs}
        \cup { PyList(<<>>),
               PyList(<<PyStr("VR1"), PyStr("==")>>),
               PyList(<<PyStr("VR1"), PyStr("=="), PyInt(3), PyInt(3)>>) }

GoodLeaf == Leaf("VR1", "==", PyInt(3))

\* interior nodes as they can appear inside an and/or list
InteriorInputs ==
    { AndOf(<<GoodLeaf>>),
      OrOf(<<GoodLeaf, GoodLeaf>>),
      AndOf(<<>>),
      EmptyDict,
      PyDict(<<"and", "or">>, <<PyList(<<GoodLeaf>>), PyList(<<GoodLeaf>>)>>),
      PyDict(<<"or", "and">>, <<PyList(<<>>), PyList(<<>>)>>),
      PyDict(<<"xor">>, <<PyList(<<GoodLeaf>>)>>),
      PyDict(<<"and", "xor">>, <<PyList(<<GoodLeaf>>), PyList(<<GoodLeaf>>)>>),
      PyDict(<<"xor", "or">>, <<PyList(<<GoodLeaf>>), PyList(<<GoodLeaf>>)>>),
      PyDict(<<"and">>, <<PyInt(3)>>),
      PyDict(<<"or">>, <<GoodLeaf>>) \* the leaf itself is a list: its elements are the children
    }

KidInputs == InteriorInputs \cup {GoodLeaf, Leaf("VR1", "~", PyInt(3)), PyInt(3)}
KidInputLists == UNION {[1..n -> KidInputs] : n \in 0..MaxKids}

Depth1Inputs == {AndOf(k) : k \in KidInputLists} \cup {OrOf(k) : k \in KidInputLists}
Depth2Inputs == {AndOf(<<GoodLeaf, OrOf(<<c>>)>>) : c \in InteriorInputs}

ValidateInputs ==
    LeafInputs \cup InteriorInputs \cup Depth1Inputs \cup Depth2Inputs \cup {PyInt(3)}

\* Subset.conditions holds the value being assigned; it is validated first
InitValidate ==
    /\ StoreIdle
    /\ G = {}
    /\ conditions \in ValidateInputs
    /\ evalCall = NoCall
    /\ ValidateIdle
    /\ SchemaIdle
    /\ RestIdle

\* a Variable is created: from now on it exists in the store
CreateVariable(v) ==
    /\ v \notin objects
    /\ objects' = objects \cup {v}
    /\ UNCHANGED <<validateCall, storeVars, evalVars, schemaVars, restVars>>

ValidateConditions ==
    /\ validateCall' = [op |-> "validate_conditions", cond |-> conditions,
                        objs |-> objects,
                        out |-> validate_conditions(conditions, objects,
                                                    default_conditions)]
    /\ UNCHANGED <<objects, storeVars, evalVars, schemaVars, restVars>>

NextValidate ==
    \/ \E v \in {"VR1", "VR2"} : CreateVariable(v)
    \/ ValidateConditions

SpecValidate == InitValidate /\ [][NextValidate]_vars

IsValidateCall == validateCall.op = "validate_conditions"
Accepted(c) == c.out = RetNone
Rejected(c) == c.out = Raise("ValueError")

\* the operators as the claim lists them
ClaimedNumericOps == {">", "<", ">=", "<="}
ClaimedGeneralOps ==
    {"==", "!=", "in", "not in", "is", "is not", "contains", "not contains"}

LeafChecksPass(cond, ops) ==
    /\ Len(cond.e) = 3
    /\ cond.e[1].s \in WellFormedIds
    /\ cond.e[1].s \in validateCall.objs
    /\ cond.e[2].s \in ops
    /\ cond.e[2].s \in ClaimedNumericOps => cond.e[3].t \in {"int", "bool"}

\* C7 as stated: a leaf is rejected when it fails one of the listed checks
\* (arity 3, well-formed existing variable id, operator among the twelve
\* listed, integer literal for a numeric operator) and accepted when it
\* passes them all.
C7_LeafValidationAsStated ==
    (IsValidateCall /\ validateCall.cond.t = "list") =>
        IF LeafChecksPass(validateCall.cond, ClaimedNumericOps \cup ClaimedGeneralOps)
        THEN Accepted(validateCall)
        ELSE Rejected(validateCall)

\* C7, amended: "=" is a known general operator too, and a literal that is
\* not JSON serializable is rejected as well; a leaf is accepted exactly when
\* it passes all the checks.
C7_LeafValidation ==
    (IsValidateCall /\ validateCall.cond.t = "list") =>
        IF /\ LeafChecksPass(validateCall.cond,
                             ClaimedNumericOps \cup ClaimedGeneralOps \cup {"="})
           /\ JsonSerializable(validateCall.cond.e[3])
        THEN Accepted(validateCall)
        ELSE Rejected(validateCall)

\* an accepted leaf with a numeric operator, and "=" accepted
C7_Witness ==
    /\ IsValidateCall
    /\ validateCall.cond.t = "list"
    /\ Len(validateCall.cond.e) = 3
    /\ validateCall.cond.e[2].s = "="
    /\ Accepted(validateCall)

WellFormedInterior(c) ==
    /\ c.t = "dict"
    /\ c.k \in {<<"and">>, <<"or">>}
    /\ c.v[1].t = "list"

\* some dict inside an and/or list of c, at any depth, is not of the form
\* {"and": [...]} or {"or": [...]}
RECURSIVE HasMalformedNested(_)
HasMalformedNested(c) ==
    /\ WellFormedInterior(c)
    /\ \E i \in DOMAIN c.v[1].e :
        LET kid == c.v[1].e[i] IN
        /\ kid.t = "dict"
        /\ ~WellFormedInterior(kid) \/ HasMalformedNested(kid)

\* C8: a condition tree with a malformed interior node anywhere inside an
\* and/or list is rejected.
C8_MalformedInteriorRejected ==
    (IsValidateCall /\ HasMalformedNested(validateCall.cond)) =>
        Rejected(validateCall)

-----------------------------------------------------------------------------
(* Dataset.validate_schema *)

PyType(c) == [t |-> "type", c |-> c]
DatasetType == PyType("Dataset")
UserType == PyType("User")
VariableType == PyType("Variable")

\* x in schema, for a type x
TypeInSchema(x, schema) == \E i \in DOMAIN schema.e : schema.e[i] = x

\* mutant: a schema of one element is not turned away
validate_schema_any_length(schema) ==
    IF schema.t # "list" THEN Raise("ValueError")
    ELSE IF Len(schema.e) = 0 THEN RetNone
    ELSE IF \E i \in DOMAIN schema.e : schema.e[i].t # "type" THEN Raise("ValueError")
    ELSE IF TypeInSchema(UserType, schema) THEN Raise("ValueError")
    ELSE IF TypeInSchema(VariableType, schema) THEN Raise("ValueError")
    ELSE IF DatasetType # schema.e[1] THEN Raise("ValueError")
    ELSE RetNone

\* lines 99-116
validate_schema(schema) ==
    IF schema.t # "list" THEN Raise("ValueError")
    ELSE IF Len(schema.e) = 0 THEN RetNone
    ELSE IF Len(schema.e) = 1 THEN Raise("ValueError")
    ELSE IF \E i \in DOMAIN schema.e : schema.e[i].t # "type" THEN Raise("ValueError")
    ELSE IF TypeInSchema(UserType, schema) THEN Raise("ValueError")
    ELSE IF TypeInSchema(VariableType, schema) THEN Raise("ValueError")
    ELSE IF DatasetType # schema.e[1] THEN Raise("ValueError")
    ELSE RetNone

-----------------------------------------------------------------------------
(* SpecSchema: schemas are handed to validate_schema *)

SchemaElements ==
    {DatasetType, PyType("Subject"), PyType("Trial"), UserType, VariableType, PyStr("SB")}

SchemaInputs ==
    {PyList(x) : x \in UNION {[1..n -> SchemaElements] : n \in 0..MaxSchemaLen}}
        \cup {PyNone, PyStr("DS")}

InitSchema ==
    /\ StoreIdle
    /\ EvalIdle
    /\ ValidateIdle
    /\ SchemaIdle
    /\ RestIdle

ValidateSchema(schema) ==
    /\ schemaCall' = [op |-> "validate_schema", schema |-> schema,
                      out |-> validate_schema(schema)]
    /\ UNCHANGED <<storeVars, evalVars, validateVars, restVars>>

NextSchema == \E schema \in SchemaInputs : ValidateSchema(schema)

SpecSchema == InitSchema /\ [][NextSchema]_vars

IsSchemaCall == schemaCall.op = "validate_schema" /\ schemaCall.schema.t = "list"
SchemaLen == Len(schemaCall.schema.e)
SchemaHas(c) == \E i \in DOMAIN schemaCall.schema.e : schemaCall.schema.e[i] = PyType(c)

\* C9: validate_schema accepts the empty schema, rejects every schema of
\* length 1, every schema that does not start with the Dataset kind and
\* every schema with the User or the Variable kind in it; so an accepted
\* schema is empty, or has length >= 2, starts with Dataset and holds
\* neither User nor Variable.
C9_SchemaValidation ==
    IsSchemaCall =>
        /\ SchemaLen = 0 => Accepted(schemaCall)
        /\ SchemaLen = 1 => Rejected(schemaCall)
        /\ (SchemaLen > 0 /\ schemaCall.schema.e[1] # PyType("Dataset"))
               => Rejected(schemaCall)
        /\ (SchemaHas("User") \/ SchemaHas("Variable")) => Rejected(schemaCall)
        /\ Accepted(schemaCall) =>
            \/ SchemaLen = 0
            \/ /\ SchemaLen >= 2
               /\ schemaCall.schema.e[1] = PyType("Dataset")
               /\ ~SchemaHas("User")
               /\ ~SchemaHas("Variable")

\* an accepted schema with levels under the dataset
C9_Witness ==
    /\ IsSchemaCall
    /\ Accepted(schemaCall)
    /\ SchemaLen >= 2
    /\ schemaCall.schema.e[2] = PyType("Subject")

-----------------------------------------------------------------------------
(* The pipeline: Processes, Logsheets and the edges between them *)

Procs == {"PR1", "PR2", "PR3"}
Logsheets == {"LG1"}
NoneRef == "None"       \* Python's None where a Variable or a Process is expected

\* ResearchObjectHandler.instances_list: weak references in creation order;
\* alive = FALSE is a reference whose object has been collected
Ref(x) == [id |-> x, alive |-> TRUE]
DeadRef(x) == [id |-> x, alive |-> FALSE]

\* [x() for x in instances_list if x() is not None and isinstance(x(), cls)]
live_objs(il, cls) ==
    LET kept == SelectSeq(il, LAMBDA r : r.alive /\ r.id \in cls)
    IN [i \in DOMAIN kept |-> kept[i].id]

\* list.index(x): the 0-based position of the first element equal to x
list_index(l, x) ==
    IF \E i \in DOMAIN l : l[i] = x
    THEN RetV((CHOOSE i \in DOMAIN l : l[i] = x /\ \A j \in 1 .. (i - 1) : l[j] # x) - 1)
    ELSE Raise("ValueError")

\* mutant: the slice keeps the step itself and the steps created after it
earlier_prs_all(all_pr_objs, last_idx) == all_pr_objs

\* all_pr_objs[:last_idx]
earlier_prs(all_pr_objs, last_idx) == SubSeq(all_pr_objs, 1, last_idx)

Inlet(ro, put) == [parent_ro |-> ro, vr_name_in_code |-> put.vr_name_in_code]
Outlet(ro, name) == [parent_ro |-> ro, vr_name_in_code |-> name]

\* Edge(inlet = ..., outlet = ..., action = ...): the edge is attached to the Action
Edge(inlet, outlet, action) == [inlet |-> inlet, outlet |-> outlet, action_id |-> action]

\* mutant: the owning step of the input is not compared
output_matches_vr_only(input, output) ==
    /\ output.vr # NoneRef
    /\ input.vr = output.vr

\* "if output.vr is None: continue" and
\* "if input.vr == output.vr and input.pr == output.pr"
output_matches(input, output) ==
    /\ output.vr # NoneRef
    /\ input.vr = output.vr
    /\ input.pr = output.pr

\* for outlet in pr.outputs.values(): ...
RECURSIVE outlet_loop(_, _, _, _, _, _)
outlet_loop(outs, ro, input, pr, j, action) ==
    IF j > Len(outs[pr]) THEN <<>>
    ELSE LET output == [vr |-> outs[pr][j].vr, pr |-> pr]
             e == IF output_matches(input, output)
                  THEN <<Edge(Inlet(ro, input), Outlet(pr, outs[pr][j].vr_name_in_code), action)>>
                  ELSE <<>>
         IN e \o outlet_loop(outs, ro, input, pr, j + 1, action)

\* for pr in all_pr_objs: ...
RECURSIVE pr_loop(_, _, _, _, _, _)
pr_loop(outs, ro, input, prs, i, action) ==
    IF i > Len(prs) THEN <<>>
    ELSE outlet_loop(outs, ro, input, prs[i], 1, action)
            \o pr_loop(outs, ro, input, prs, i + 1, action)

\* mutant: a column is linked only when the input names the Logsheet as its source
header_matches_owner(input, lg, h) == h.vr = input.vr /\ input.pr = lg

\* "if h[3] == input.vr"
header_matches(input, lg, h) == h.vr = input.vr

\* for h in lg.headers: ...
RECURSIVE header_loop(_, _, _, _, _, _)
header_loop(hdrs, ro, input, lg, j, action) ==
    IF j > Len(hdrs[lg].headers) THEN <<>>
    ELSE LET h == hdrs[lg].headers[j]
             e == IF header_matches(input, lg, h)
                  THEN <<Edge(Inlet(ro, input), Outlet(lg, h.name), action)>>
                  ELSE <<>>
         IN e \o header_loop(hdrs, ro, input, lg, j + 1, action)

\* Logsheet.validate_headers(headers, action, []): raises on headers that do
\* not validate
validate_headers(hdrs, lg) ==
    IF hdrs[lg].valid THEN RetNone ELSE Raise("ValueError")

\* for lg in lg_objs: ...   (edges created so far are in acc)
RECURSIVE lg_loop(_, _, _, _, _, _, _)
lg_loop(hdrs, ro, input, lgs, i, action, acc) ==
    IF i > Len(lgs) THEN [out |-> RetNone, edges |-> acc]
    ELSE LET v == validate_headers(hdrs, lgs[i]) IN
         IF Raised(v) THEN [out |-> v, edges |-> acc]
         ELSE lg_loop(hdrs, ro, input, lgs, i + 1, action,
                      acc \o header_loop(hdrs, ro, input, lgs[i], 1, action))

\* for inlet in ro.inputs.values(): ...
RECURSIVE inlet_loop(_, _, _, _, _, _, _, _, _)
inlet_loop(ins, outs, hdrs, ro, prs, lgs, k, action, acc) ==
    IF k > Len(ins[ro]) THEN [out |-> RetNone, edges |-> acc]
    ELSE LET input == ins[ro][k] IN
         IF input.vr = NoneRef
         THEN inlet_loop(ins, outs, hdrs, ro, prs, lgs, k + 1, action, acc)
         ELSE LET r == lg_loop(hdrs, ro, input, lgs, 1, action,
                               acc \o pr_loop(outs, ro, input, prs, 1, action))
              IN IF Raised(r.out) THEN r
                 ELSE inlet_loop(ins, outs, hdrs, ro, prs, lgs, k + 1, action, r.edges)

\* make_all_edges(ro): the outcome, the Edge objects created, whether an
\* Action was created and how many times it was committed
make_all_edges(il, ins, outs, hdrs, ro, action) ==
    LET all_pr_objs == live_objs(il, Procs)
        lg_objs == live_objs(il, Logsheets)
        last_idx == list_index(all_pr_objs, ro)
    IN IF Raised(last_idx)
       THEN [out |-> last_idx, edges |-> <<>>, actions |-> 0, commits |-> 0]
       ELSE LET r == inlet_loop(ins, outs, hdrs, ro,
                                earlier_prs(all_pr_objs, last_idx.pval),
                                lg_objs, 1, action, <<>>)
            IN [out |-> r.out, edges |-> r.edges, actions |-> 1,
                commits |-> IF Raised(r.out) THEN 0 ELSE 1]

\* Action.execute of a committed Action that Edges were attached to: one
\* active row per Edge, in the order the Edges were created
RECURSIVE execute_edges(_, _, _)
execute_edges(tbl, edges, k) ==
    IF k > Len(edges) THEN tbl
    ELSE execute_edges(
            Append(tbl, [action_id |-> edges[k].action_id,
                         edge_id |-> <<edges[k].action_id, k>>,
                         source_object_id |-> edges[k].outlet.parent_ro,
                         target_object_id |-> edges[k].inlet.parent_ro,
                         edge |-> edges[k],
                         is_active |-> 1]),
            edges, k + 1)

-----------------------------------------------------------------------------
(* SpecLink: make_all_edges on a fixed set of Processes and Logsheets *)

Put(name, vr, pr) == [vr_name_in_code |-> name, vr |-> vr, pr |-> pr]
Out(name, vr) == [vr_name_in_code |-> name, vr |-> vr]
Header(name, vr) == [name |-> name, vr |-> vr]

InstanceLists ==
    { <<Ref("PR1"), Ref("PR2"), Ref("PR3"), Ref("LG1")>>,
      <<Ref("PR2"), Ref("PR1"), Ref("PR3")>>,
      <<Ref("PR1"), DeadRef("PR2"), Ref("LG1"), Ref("PR3")>> }

InputOptions ==
    { <<>>,
      <<Put("a", "VR1", "PR1")>>,
      <<Put("a", "VR1", "PR2"), Put("b", "VR2", "PR1")>>,
      <<Put("a", NoneRef, NoneRef), Put("b", "VR1", "PR3")>> }

OutputOptions ==
    { <<Out("x", "VR1")>>,
      <<Out("x", NoneRef), Out("y", "VR2"), Out("z", "VR1")>> }

HeaderOptions ==
    { [headers |-> <<>>, valid |-> TRUE],
      [headers |-> <<Header("h1", "VR1")>>, valid |-> TRUE],
      [headers |-> <<Header("h1", "VR1"), Header("h2", "VR2")>>, valid |-> TRUE],
      [headers |-> <<Header("h1", "VR1")>>, valid |-> FALSE] }

InitLink ==
    /\ StoreIdle
    /\ EvalIdle
    /\ ValidateIdle
    /\ SchemaIdle
    /\ instances_list \in InstanceLists
    /\ inputs \in [Procs -> InputOptions]
    /\ outputs \in [Procs -> OutputOptions]
    /\ outputs["PR3"] = <<Out("x", "VR1")>>
    /\ headers \in [Logsheets -> HeaderOptions]
    /\ pipelineobjects_graph = <<>>
    /\ linkCall = NoCall
    /\ DagIdle
    /\ DatasetIdle

LinkUnchanged ==
    UNCHANGED <<vr_dataobjects, data_values, objDict, lastCall, evalVars,
                validateVars, schemaVars, instances_list, inputs, outputs, headers,
                dagVars, datasetVars>>

\* mutant: every Edge is written to the table when it is created
MakeAllEdgesIncremental(ro) ==
    LET r == make_all_edges(instances_list, inputs, outputs, headers, ro, nextAction) IN
    /\ r.actions = 1 => nextAction <= MaxPasses
    /\ nextAction' = nextAction + r.actions
    /\ pipelineobjects_graph' = execute_edges(pipelineobjects_graph, r.edges, 1)
    /\ linkCall' = [op |-> "make_all_edges", ro |-> ro, out |-> r.out,
                    edges |-> r.edges, action |-> nextAction,
                    actions |-> r.actions, commits |-> r.commits]
    /\ LinkUnchanged

\* make_all_edges(ro): "action.commit = True; action.execute()" is reached
\* only when no step of the pass raised
MakeAllEdges(ro) ==
    LET r == make_all_edges(instances_list, inputs, outputs, headers, ro, nextAction) IN
    /\ r.actions = 1 => nextAction <= MaxPasses
    /\ nextAction' = nextAction + r.actions
    /\ pipelineobjects_graph' =
           IF r.commits = 1 THEN execute_edges(pipelineobjects_graph, r.edges, 1)
           ELSE pipelineobjects_graph
    /\ linkCall' = [op |-> "make_all_edges", ro |-> ro, out |-> r.out,
                    edges |-> r.edges, action |-> nextAction,
                    actions |-> r.actions, commits |-> r.commits]
    /\ LinkUnchanged

\* the objects a caller can hold: those still alive
LiveObjs == {instances_list[i].id : i \in {j \in DOMAIN instances_list : instances_list[j].alive}}

NextLink == \E ro \in LiveObjs : MakeAllEdges(ro)

SpecLink == InitLink /\ [][NextLink]_vars

-----------------------------------------------------------------------------
(* Claims about make_all_edges *)

IsLinkCall == linkCall.op = "make_all_edges"
LinkReturned == IsLinkCall /\ ~Raised(linkCall.out)

\* object a is alive and was created before object b
CreatedBefore(a, b) ==
    \E i, j \in DOMAIN instances_list :
        /\ i < j
        /\ instances_list[i] = Ref(a)
        /\ instances_list[j] = Ref(b)

IsLive(a) == \E i \in DOMAIN instances_list : instances_list[i] = Ref(a)

\* how many of the Edges of the last pass join this outlet to this inlet
EdgeCount(outlet, inlet) ==
    Cardinality({k \in DOMAIN linkCall.edges :
                    /\ linkCall.edges[k].outlet = outlet
                    /\ linkCall.edges[k].inlet = inlet})

BoundInputs(b) == {k \in DOMAIN inputs[b] : inputs[b][k].vr # NoneRef}

\* an earlier-created Process has an output bound to the variable of input k of b
ProducedEarlier(b, k) ==
    \E a \in Procs : \E j \in DOMAIN outputs[a] :
        CreatedBefore(a, b) /\ outputs[a][j].vr = inputs[b][k].vr

\* the Edges from Process outputs are exactly the matches among the earlier steps
ProcessEdgesAreTheMatches ==
    LET b == linkCall.ro IN
    /\ \A k \in DOMAIN inputs[b], a \in Procs : \A j \in DOMAIN outputs[a] :
        EdgeCount(Outlet(a, outputs[a][j].vr_name_in_code), Inlet(b, inputs[b][k])) =
            IF /\ k \in BoundInputs(b)
               /\ CreatedBefore(a, b)
               /\ outputs[a][j].vr = inputs[b][k].vr
               /\ inputs[b][k].pr = a
            THEN 1 ELSE 0
    /\ \A e \in SeqToSet(linkCall.edges) :
        /\ e.inlet.parent_ro = b
        /\ \E k \in DOMAIN inputs[b] : e.inlet = Inlet(b, inputs[b][k])

\* C13 as stated: the Edges from Process outputs are the matches, and when
\* no earlier step produces the variable of any input the pass creates zero
\* edges and completes without error (read here for Logsheets whose headers
\* validate).
C13_LinkStepAsStated ==
    (IsLinkCall /\ linkCall.ro \in Procs /\ \A lg \in Logsheets : headers[lg].valid) =>
        /\ LinkReturned => ProcessEdgesAreTheMatches
        /\ (\A k \in BoundInputs(linkCall.ro) : ~ProducedEarlier(linkCall.ro, k)) =>
            /\ ~Raised(linkCall.out)
            /\ linkCall.edges = <<>>

\* C13, amended: a pass that completes has created, for each input bound to
\* V with owning step A, exactly one edge from each output bound to V of the
\* earlier-created step A; when no earlier step produces V no edge comes
\* from a Process output, and the pass raises only when the headers of a
\* Logsheet do not validate.
C13_LinkStep ==
    (IsLinkCall /\ linkCall.ro \in Procs) =>
        /\ LinkReturned => ProcessEdgesAreTheMatches
        /\ (\A k \in BoundInputs(linkCall.ro) : ~ProducedEarlier(linkCall.ro, k)) =>
            \A e \in SeqToSet(linkCall.edges) : e.outlet.parent_ro \in Logsheets
        /\ Raised(linkCall.out) =>
            \E lg \in Logsheets : IsLive(lg) /\ ~headers[lg].valid

\* step A created before step B, and the pass on B made exactly one edge A -> B
C13_Witness ==
    /\ LinkReturned
    /\ \E a \in Procs :
        /\ CreatedBefore(a, linkCall.ro)
        /\ Cardinality({k \in DOMAIN linkCall.edges :
                           linkCall.edges[k].outlet.parent_ro = a}) = 1
        /\ \E k \in DOMAIN linkCall.edges :
            /\ linkCall.edges[k].outlet.parent_ro = a
            /\ linkCall.edges[k].inlet.parent_ro = linkCall.ro

\* an unmatched input: the pass completed and made no edge
C13_WitnessNoMatch ==
    /\ LinkReturned
    /\ BoundInputs(linkCall.ro) # {}
    /\ \A k \in BoundInputs(linkCall.ro) : ~ProducedEarlier(linkCall.ro, k)
    /\ linkCall.edges = <<>>

\* C14: no Edge of a pass on B has B itself or a Process created after B as
\* its source: the source of every Edge from a Process output is alive and
\* precedes B in creation order.
C14_NoForwardReference ==
    IsLinkCall =>
        \A e \in SeqToSet(linkCall.edges) :
            e.outlet.parent_ro \in Procs =>
                /\ e.outlet.parent_ro # linkCall.ro
                /\ CreatedBefore(e.outlet.parent_ro, linkCall.ro)

\* an input of B names B itself or a later step that has an output with the
\* same variable, and the completed pass made no edge from it
C14_Witness ==
    /\ LinkReturned
    /\ linkCall.ro \in Procs
    /\ \E k \in BoundInputs(linkCall.ro), c \in Procs : \E j \in DOMAIN outputs[c] :
        /\ IsLive(c)
        /\ ~CreatedBefore(c, linkCall.ro)
        /\ inputs[linkCall.ro][k].pr = c
        /\ outputs[c][j].vr = inputs[linkCall.ro][k].vr
        /\ EdgeCount(Outlet(c, outputs[c][j].vr_name_in_code),
                     Inlet(linkCall.ro, inputs[linkCall.ro][k])) = 0

\* the rows of the table that carry the Edges of Action a
RowsOfPass(tbl, a) == SelectSeq(tbl, LAMBDA r : r.action_id = a)

\* C15: every Edge of a pass is attached to the one Action of the pass; the
\* Action is committed once, after the last input, and then the table gains
\* exactly the pass's Edges; a pass that raises commits nothing and leaves
\* the table as it was.
C15_OneActionOneCommit ==
    [][linkCall'.op = "make_all_edges" =>
        /\ \A e \in SeqToSet(linkCall'.edges) : e.action_id = linkCall'.action
        /\ linkCall'.actions <= 1
        /\ IF Raised(linkCall'.out)
           THEN /\ linkCall'.commits = 0
                /\ pipelineobjects_graph' = pipelineobjects_graph
           ELSE /\ linkCall'.commits = 1
                /\ Len(pipelineobjects_graph') =
                       Len(pipelineobjects_graph) + Len(linkCall'.edges)
                /\ SubSeq(pipelineobjects_graph', 1, Len(pipelineobjects_graph)) =
                       pipelineobjects_graph
                /\ LET rows == RowsOfPass(pipelineobjects_graph', linkCall'.action) IN
                   /\ Len(rows) = Len(linkCall'.edges)
                   /\ \A k \in DOMAIN rows :
                       rows[k].edge = linkCall'.edges[k] /\ rows[k].is_active = 1
    ]_vars

\* a pass raised after it had created an Edge, and no row carries its Action
C15_Witness ==
    /\ IsLinkCall
    /\ Raised(linkCall.out)
    /\ linkCall.edges # <<>>
    /\ RowsOfPass(pipelineobjects_graph, linkCall.action) = <<>>

\* C16: a pass on B that completes has created, for each input bound to V
\* and each header bound to V of each live Logsheet, one Outlet of that
\* Logsheet for the column and one edge from it to the input, whatever
\* owning step the input records; other headers give no edge.
C16_LogsheetColumnsLinked ==
    (LinkReturned /\ linkCall.ro \in Procs) =>
        LET b == linkCall.ro IN
        /\ \A k \in DOMAIN inputs[b], lg \in Logsheets :
            \A j \in DOMAIN headers[lg].headers :
                EdgeCount(Outlet(lg, headers[lg].headers[j].name), Inlet(b, inputs[b][k])) =
                    IF /\ k \in BoundInputs(b)
                       /\ IsLive(lg)
                       /\ headers[lg].headers[j].vr = inputs[b][k].vr
                    THEN 1 ELSE 0
        /\ \A e \in SeqToSet(linkCall.edges) :
            e.outlet.parent_ro \in Logsheets =>
                \E j \in DOMAIN headers[e.outlet.parent_ro].headers :
                    e.outlet = Outlet(e.outlet.parent_ro,
                                      headers[e.outlet.parent_ro].headers[j].name)

\* an input owned by a Process got an edge from a Logsheet column, and a
\* column bound to another variable gave none
C16_Witness ==
    /\ LinkReturned
    /\ \E k \in DOMAIN linkCall.edges :
        /\ linkCall.edges[k].outlet.parent_ro \in Logsheets
        /\ \E i \in DOMAIN inputs[linkCall.ro] :
            /\ linkCall.edges[k].inlet = Inlet(linkCall.ro, inputs[linkCall.ro][i])
            /\ inputs[linkCall.ro][i].pr \in Procs
    /\ Len(inputs[linkCall.ro]) = 1
    /\ Len(headers["LG1"].headers) = 2

-----------------------------------------------------------------------------
(* build_pl: the pipeline multigraph of the active edge rows *)

\* sql_order_result(..., ["source_object_id", "target_object_id", "edge_id"],
\* single = True): of the rows of one (source, target, edge) the one of the
\* most recent Action, kept when is_active = 1; in row order
RECURSIVE sql_order_result_edges(_, _)
sql_order_result_edges(tbl, i) ==
    IF i > Len(tbl) THEN <<>>
    ELSE LET r == tbl[i]
             latest == \A j \in DOMAIN tbl :
                          j > i => <<tbl[j].source_object_id, tbl[j].target_object_id,
                                     tbl[j].edge_id>>
                                   # <<r.source_object_id, r.target_object_id, r.edge_id>>
         IN (IF latest /\ r.is_active = 1
             THEN << <<r.source_object_id, r.target_object_id, r.edge_id>> >>
             ELSE <<>>)
            \o sql_order_result_edges(tbl, i + 1)

\* Edge.load(id = ..., action = ...): the Edge record with its inlet and outlet
Edge_load(tbl, id) ==
    LET r == tbl[CHOOSE i \in DOMAIN tbl : tbl[i].edge_id = id]
    IN [id |-> id, inlet |-> r.edge.inlet, outlet |-> r.edge.outlet]

\* G.add_edge(u, v, edge = edge) on a MultiDiGraph: one more edge, also
\* between nodes that are joined already
add_edge(g, u, v, edge) ==
    [nodes |-> g.nodes \cup {u, v},
     edges |-> Append(g.edges, [u |-> u, v |-> v, edge |-> edge])]

\* mutant: the edge is directed from the owner of the inlet to the owner of the outlet
graph_loop_reversed(g, edges, i) ==
    LET RECURSIVE loop(_, _)
        loop(h, k) ==
            IF k > Len(edges) THEN h
            ELSE loop(add_edge(h, edges[k].inlet.parent_ro, edges[k].outlet.parent_ro,
                               edges[k]), k + 1)
    IN loop(g, i)

\* for edge in edges: G.add_edge(source_obj, target_obj, edge = edge)
graph_loop(g, edges, i) ==
    LET RECURSIVE loop(_, _)
        loop(h, k) ==
            IF k > Len(edges) THEN h
            ELSE LET target_obj == edges[k].inlet.parent_ro
                     source_obj == edges[k].outlet.parent_ro
                 IN loop(add_edge(h, source_obj, target_obj, edges[k]), k + 1)
    IN loop(g, i)

\* build_pl(): ValueError when the query gives no row, the multigraph otherwise
build_pl(tbl) ==
    LET result == sql_order_result_edges(tbl, 1) IN
    IF result = <<>> THEN Raise("ValueError")
    ELSE LET edges == [k \in DOMAIN result |-> Edge_load(tbl, result[k][3])]
         IN [kind |-> "return",
             graph |-> graph_loop([nodes |-> {}, edges |-> <<>>], edges, 1)]

-----------------------------------------------------------------------------
(* SpecBuild: edges are made by make_all_edges, deactivated, and read by build_pl *)

BuildInputs ==
    { [PR1 |-> <<>>,
       PR2 |-> <<Put("a", "VR1", "PR1")>>,
       PR3 |-> <<Put("a", "VR1", "PR2"), Put("b", "VR2", "PR1")>>],
      [PR1 |-> <<>>,
       PR2 |-> <<>>,
       PR3 |-> <<Put("a", "VR1", "PR1")>>] }

InitBuild ==
    /\ StoreIdle
    /\ EvalIdle
    /\ ValidateIdle
    /\ SchemaIdle
    /\ instances_list = <<Ref("PR1"), Ref("PR2"), Ref("PR3"), Ref("LG1")>>
    /\ inputs \in BuildInputs
    /\ outputs = [PR1 |-> <<Out("x", NoneRef), Out("y", "VR2"), Out("z", "VR1")>>,
                  PR2 |-> <<Out("x", "VR1")>>,
                  PR3 |-> <<Out("x", "VR1")>>]
    /\ headers \in [Logsheets -> {h \in HeaderOptions : h.valid}]
    /\ pipelineobjects_graph = <<>>
    /\ linkCall = NoCall
    /\ DagIdle
    /\ DatasetIdle

\* an Edge is deactivated: its row is written again, inactive, by a new Action
DeactivateEdge(i) ==
    /\ nextAction <= MaxActions
    /\ pipelineobjects_graph[i].is_active = 1
    /\ pipelineobjects_graph' =
           Append(pipelineobjects_graph,
                  [pipelineobjects_graph[i] EXCEPT !.action_id = nextAction,
                                                   !.is_active = 0])
    /\ nextAction' = nextAction + 1
    /\ linkCall' = [op |-> "deactivate", edge_id |-> pipelineobjects_graph[i].edge_id]
    /\ LinkUnchanged

\* build_pl(): creates an Action that is never executed
BuildPl ==
    /\ nextAction <= MaxActions
    /\ nextAction' = nextAction + 1
    /\ linkCall' = [op |-> "build_pl", action |-> nextAction,
                    out |-> build_pl(pipelineobjects_graph)]
    /\ UNCHANGED pipelineobjects_graph
    /\ LinkUnchanged

NextBuild ==
    \/ \E ro \in LiveObjs : MakeAllEdges(ro)
    \/ \E i \in DOMAIN pipelineobjects_graph : DeactivateEdge(i)
    \/ BuildPl

SpecBuild == InitBuild /\ [][NextBuild]_vars

IsBuildCall == linkCall.op = "build_pl"

EdgeIds(tbl) == {tbl[i].edge_id : i \in DOMAIN tbl}

\* the edge was written and no later row deactivates it
IsActiveEdge(tbl, id) ==
    LET last == CHOOSE i \in DOMAIN tbl :
                    /\ tbl[i].edge_id = id
                    /\ \A j \in DOMAIN tbl : tbl[j].edge_id = id => j <= i
    IN tbl[last].is_active = 1

ActiveEdgeIds(tbl) == {id \in EdgeIds(tbl) : IsActiveEdge(tbl, id)}

\* the graph has one edge per active edge row, directed from the owner of
\* the Outlet to the owner of the Inlet and carrying the Edge record
GraphOfActiveEdges(g, tbl) ==
    /\ Len(g.edges) = Cardinality(ActiveEdgeIds(tbl))
    /\ \A id \in ActiveEdgeIds(tbl) :
        \E k \in DOMAIN g.edges :
            /\ g.edges[k].edge = Edge_load(tbl, id)
            /\ g.edges[k].u = g.edges[k].edge.outlet.parent_ro
            /\ g.edges[k].v = g.edges[k].edge.inlet.parent_ro
            /\ \A m \in DOMAIN g.edges : g.edges[m].edge.id = id => m = k
    /\ g.nodes = {g.edges[k].u : k \in DOMAIN g.edges}
                    \cup {g.edges[k].v : k \in DOMAIN g.edges}

-----------------------------------------------------------------------------
(* The config graph and the bridges between packages *)

\* a string of a bridge record or a node name, as its dot-separated parts:
\* "pkgA.step1.out" is Name(<<"pkgA", "step1", "out">>)
Name(toks) == [t |-> "str", toks |-> toks]
NameList(names) == [t |-> "list", e |-> names]

LOGSHEET_KEY == "__logsheet__"
DATA_OBJECT_NAME_KEY == "__data_object_name__"
DunderParts == {LOGSHEET_KEY, DATA_OBJECT_NAME_KEY, "__other__"}

\* helper_functions.is_specified: "?" stands for an input left open
is_specified(input) == input.toks # <<"?">>

\* helper_functions.is_dynamic_variable: a dotted name, runnable.variable
\* inside a package and package.runnable.variable in a bridge
is_dynamic_variable(input) == Len(input.toks) \in {2, 3}

\* classify_input_type(input) for a string: the class it returns
classify_input_type(input) ==
    IF ~is_specified(input) THEN "Unspecified"
    ELSE IF input.toks # <<>> /\ input.toks[1] \in DunderParts
                /\ input.toks = <<DATA_OBJECT_NAME_KEY>>
         THEN "DataObjectName"
    ELSE IF input.toks # <<>> /\ input.toks[1] = LOGSHEET_KEY
         THEN "LogsheetVariable"
    ELSE IF is_dynamic_variable(input) THEN "InputVariable"
    ELSE "Constant"

Node(id, tag, name, attrs) == [id |-> id, tag |-> tag, name |-> name, attrs |-> attrs]

\* [n['node'] for _, n in dag.nodes(data=True)
\*      if n['node'].name == name and type(n['node']) in tags][0]
first_node(g, name, tags) ==
    LET hits == SelectSeq(g.nodes, LAMBDA n : n.name = name /\ n.tag \in tags)
    IN IF hits = <<>> THEN Raise("IndexError") ELSE [kind |-> "return", node |-> hits[1]]

ConfigError(name) == [kind |-> "raise", exc |-> "ValueError", names |-> name.toks]

\* dag_info.check_variable_properly_specified: a configuration error naming
\* the package, runnable and variable when the graph has no node of that name
check_variable_properly_specified(g, name) ==
    IF \E i \in DOMAIN g.nodes : g.nodes[i].name = name
    THEN RetNone
    ELSE ConfigError(name)

\* dag.nodes[target_node.id]['node'] = target_node
set_node(g, node) ==
    [g EXCEPT !.nodes = [i \in DOMAIN g.nodes |->
                            IF g.nodes[i].id = node.id THEN node ELSE g.nodes[i]]]

\* dag.add_edge(u, v, bridge = ...)
add_bridge_edge(g, u, v, bridge) ==
    [g EXCEPT !.edges = Append(g.edges, [u |-> u, v |-> v, bridge |-> bridge])]

\* mutant: an Unspecified target stays Unspecified
promote_never(target_node) == target_node

\* if isinstance(target_node, Unspecified):
\*     target_node = InputVariable(target_node.id, target_node.name, {})
promote(target_node) ==
    IF target_node.tag = "Unspecified"
    THEN Node(target_node.id, "InputVariable", target_node.name, {})
    ELSE target_node

\* for target in targets: ...   (src is the lookup of the source node)
RECURSIVE target_loop(_, _, _, _, _, _)
target_loop(g, package_name, bridge_name, src, targets, i) ==
    IF i > Len(targets) THEN [out |-> RetNone, dag |-> g]
    ELSE LET target == targets[i]
             target_type == classify_input_type(target)
         IN
         IF target_type # "InputVariable" THEN [out |-> Raise("AssertionError"), dag |-> g]
         ELSE LET found == first_node(g, target, {"Unspecified", "InputVariable"}) IN
         IF Raised(found) THEN
             LET chk == check_variable_properly_specified(g, target) IN
             [out |-> IF Raised(chk) THEN chk ELSE found, dag |-> g]
         ELSE LET target_node == promote(found.node)
                  g1 == set_node(g, target_node)
              IN
              IF Raised(src)      \* source_node was never assigned
              THEN [out |-> Raise("UnboundLocalError"), dag |-> g1]
              ELSE target_loop(
                      add_bridge_edge(g1, src.node.id, target_node.id,
                                      <<package_name, bridge_name>>),
                      package_name, bridge_name, src, targets, i + 1)

\* bridge_dynamic_variables: the outcome and the graph as the call leaves it
bridge_dynamic_variables(g, package_name, bridge_name, source, targets) ==
    LET src == first_node(g, source, {"OutputVariable"})
        chk == IF Raised(src) THEN check_variable_properly_specified(g, source)
               ELSE RetNone
    IN IF Raised(chk) THEN [out |-> chk, dag |-> g]
       ELSE target_loop(g, package_name, bridge_name, src, targets, 1)

\* sources = [sources] if not isinstance(sources, list) else sources
as_list(x) == IF x.t # "list" THEN <<x>> ELSE x.e

\* for source in sources: ...
RECURSIVE source_loop(_, _, _, _, _, _)
source_loop(g, package_name, bridge_name, sources, targets, i) ==
    IF i > Len(sources) THEN [out |-> RetNone, dag |-> g]
    ELSE LET source_type == classify_input_type(sources[i]) IN
         IF source_type = "InputVariable" THEN
             LET r == bridge_dynamic_variables(g, package_name, bridge_name,
                                               sources[i], targets)
             IN IF Raised(r.out) THEN r
                ELSE source_loop(r.dag, package_name, bridge_name, sources, targets, i + 1)
         ELSE
             \* LogsheetVariable: "continue"; a str is no Constant instance
             source_loop(g, package_name, bridge_name, sources, targets, i + 1)

\* for bridge_name, bridges_dict in package_bridges.items(): ...
RECURSIVE bridge_loop(_, _, _, _)
bridge_loop(g, package_name, package_bridges, i) ==
    IF i > Len(package_bridges) THEN [out |-> RetNone, dag |-> g]
    ELSE LET b == package_bridges[i]
             r == source_loop(g, package_name, b.name,
                              as_list(b.sources), as_list(b.targets), 1)
         IN IF Raised(r.out) THEN r
            ELSE bridge_loop(r.dag, package_name, package_bridges, i + 1)

\* bridge_packages(dag, all_packages_bridges)
RECURSIVE bridge_packages(_, _, _)
bridge_packages(g, all_packages_bridges, i) ==
    IF i > Len(all_packages_bridges) THEN [out |-> RetNone, dag |-> g]
    ELSE LET r == bridge_loop(g, all_packages_bridges[i].package,
                              all_packages_bridges[i].bridges, 1)
         IN IF Raised(r.out) THEN r
            ELSE bridge_packages(r.dag, all_packages_bridges, i + 1)

-----------------------------------------------------------------------------
(* SpecBridge: bridge_packages on the config graph of two packages *)

MaxBridgeCalls == 2     \* bridge_packages calls in one behaviour

OutVar == Name(<<"pkgA", "step1", "out">>)
InVar == Name(<<"pkgB", "step2", "inVar">>)
In2 == Name(<<"pkgB", "step2", "in2">>)
ConstVar == Name(<<"pkgB", "step2", "c">>)
Missing == Name(<<"pkgB", "step2", "nope">>)
LogsheetVar == Name(<<LOGSHEET_KEY, "col">>)
Plain == Name(<<"hello">>)
Open == Name(<<"?">>)

\* the graph create_package_dag leaves for pkgA.step1 (one output) and
\* pkgB.step2 (three inputs); inVar and in2 are left open, variables already
\* or (in2) a constant
ConfigDag(inVarTag, in2Tag) ==
    [nodes |-> << Node("N1", "Process", Name(<<"pkgA", "step1">>), {}),
                  Node("N2", "OutputVariable", OutVar, {}),
                  Node("N3", "Process", Name(<<"pkgB", "step2">>), {}),
                  Node("N4", inVarTag, InVar, {}),
                  Node("N5", in2Tag, In2, {}),
                  Node("N6", "Constant", ConstVar, {"value"}) >>,
     edges |-> << [u |-> "N1", v |-> "N2", bridge |-> <<>>],
                  [u |-> "N4", v |-> "N3", bridge |-> <<>>],
                  [u |-> "N5", v |-> "N3", bridge |-> <<>>],
                  [u |-> "N6", v |-> "N3", bridge |-> <<>>] >>]

BridgeDags ==
    {ConfigDag(t4, t5) : t4 \in {"Unspecified", "InputVariable"},
                         t5 \in {"InputVariable", "Unspecified", "Constant"}}

Bridge(name, sources, targets) == [name |-> name, sources |-> sources, targets |-> targets]
Package(name, bridges) == [package |-> name, bridges |-> bridges]

BridgeRecords ==
    { Bridge("b1", OutVar, InVar),
      Bridge("b1", NameList(<<OutVar>>), NameList(<<InVar, In2>>)),
      Bridge("b1", OutVar, NameList(<<>>)),
      Bridge("b1", LogsheetVar, InVar),
      Bridge("b1", NameList(<<OutVar, LogsheetVar>>), InVar),
      Bridge("b1", Plain, InVar),
      Bridge("b1", Open, InVar),
      Bridge("b1", Missing, InVar),
      Bridge("b1", In2, InVar),
      Bridge("b1", OutVar, Missing),
      Bridge("b1", OutVar, ConstVar),
      Bridge("b1", OutVar, Plain),
      Bridge("b1", OutVar, NameList(<<InVar, LogsheetVar>>)) }

BridgeInputs ==
    {<< Package("pkgA", <<b>>) >> : b \in BridgeRecords}
        \cup { << Package("pkgA", <<Bridge("b1", OutVar, InVar)>>),
                  Package("pkgB", <<Bridge("b2", OutVar, In2),
                                    Bridge("b3", Missing, In2)>>) >>,
               << Package("pkgA", <<>>) >>,
               <<>> }

InitBridge ==
    /\ StoreIdle
    /\ EvalIdle
    /\ ValidateIdle
    /\ SchemaIdle
    /\ PipelineIdle
    /\ DatasetIdle
    /\ dag \in BridgeDags
    /\ bridgeCall = NoCall

NumBridgeCalls == IF bridgeCall = NoCall THEN 0 ELSE bridgeCall.n

\* bridge_packages(dag, all_packages_bridges): the graph is changed in place,
\* so what was done before an error stays done
BridgePackages(all_packages_bridges) ==
    LET r == bridge_packages(dag, all_packages_bridges, 1) IN
    /\ NumBridgeCalls < MaxBridgeCalls
    /\ dag' = r.dag
    /\ bridgeCall' = [op |-> "bridge_packages", bridges |-> all_packages_bridges,
                      before |-> dag, out |-> r.out, n |-> NumBridgeCalls + 1]
    /\ UNCHANGED <<storeVars, evalVars, validateVars, schemaVars, pipelineVars,
                   datasetVars>>

NextBridge == \E b \in BridgeInputs : BridgePackages(b)

SpecBridge == InitBridge /\ [][NextBridge]_vars

-----------------------------------------------------------------------------
(* Claims about bridge_packages *)

IsBridgeCall == bridgeCall.op = "bridge_packages"
BridgeReturned == IsBridgeCall /\ ~Raised(bridgeCall.out)

\* the declared bridges of the last call: package, bridge, sources, targets
Declared ==
    LET b == bridgeCall.bridges IN
    UNION {{[package |-> b[p].package, name |-> b[p].bridges[i].name,
             sources |-> as_list(b[p].bridges[i].sources),
             targets |-> as_list(b[p].bridges[i].targets)]
            : i \in DOMAIN b[p].bridges} : p \in DOMAIN b}

\* the applications of the last call: a source that is a variable name and
\* a target of the same bridge (by position, a name may be listed twice)
Applications ==
    UNION {{[package |-> d.package, name |-> d.name, si |-> si, ti |-> ti,
             source |-> d.sources[si], target |-> d.targets[ti]]
            : si \in {x \in DOMAIN d.sources :
                        classify_input_type(d.sources[x]) = "InputVariable"},
              ti \in DOMAIN d.targets} : d \in Declared}

NodeNamed(g, name, tags) ==
    {g.nodes[i] : i \in {j \in DOMAIN g.nodes : g.nodes[j].name = name /\ g.nodes[j].tag \in tags}}

ResolvesAsSource(g, name) == NodeNamed(g, name, {"OutputVariable"}) # {}
ResolvesAsTarget(g, name) ==
    /\ NodeNamed(g, name, {"Unspecified", "InputVariable"}) # {}
    /\ classify_input_type(name) = "InputVariable"

\* the edge an application asks for
BridgeEdge(g, a) ==
    [u |-> (CHOOSE n \in NodeNamed(g, a.source, {"OutputVariable"}) : TRUE).id,
     v |-> (CHOOSE n \in NodeNamed(g, a.target, {"Unspecified", "InputVariable"}) : TRUE).id,
     bridge |-> <<a.package, a.name>>]

NewEdges == SubSeq(dag.edges, Len(bridgeCall.before.edges) + 1, Len(dag.edges))

\* C18: a call that applied its bridges (every source an OutputVariable node,
\* every target an Unspecified or InputVariable node) leaves each target
\* that was Unspecified tagged InputVariable with the same id and name, has
\* added exactly one edge per application, from the source node to the
\* target node and tagged <declaring package>.<bridge name>, has added or
\* removed no node, changed no other node and removed no edge.
C18_BridgePromotesAndLinks ==
    BridgeReturned =>
        LET before == bridgeCall.before IN
        /\ \A a \in Applications :
            ResolvesAsSource(before, a.source) /\ ResolvesAsTarget(before, a.target)
        /\ Len(dag.nodes) = Len(before.nodes)
        /\ \A k \in DOMAIN before.nodes :
            dag.nodes[k] =
                IF /\ before.nodes[k].tag = "Unspecified"
                   /\ \E a \in Applications : a.target = before.nodes[k].name
                THEN Node(before.nodes[k].id, "InputVariable", before.nodes[k].name, {})
                ELSE before.nodes[k]
        /\ SubSeq(dag.edges, 1, Len(before.edges)) = before.edges
        /\ Len(NewEdges) = Cardinality(Applications)
        /\ \A a \in Applications :
            Cardinality({k \in DOMAIN NewEdges : NewEdges[k] = BridgeEdge(before, a)}) =
                Cardinality({c \in Applications :
                                BridgeEdge(before, c) = BridgeEdge(before, a)})

\* one bridge, applied to an Unspecified target and to a target that was an
\* InputVariable already
C18_Witness ==
    /\ BridgeReturned
    /\ \E a, c \in Applications :
        /\ a.package = c.package /\ a.name = c.name /\ a.si = c.si
        /\ NodeNamed(bridgeCall.before, a.target, {"Unspecified"}) # {}
        /\ NodeNamed(dag, a.target, {"InputVariable"}) # {}
        /\ NodeNamed(bridgeCall.before, c.target, {"InputVariable"}) # {}
    /\ Len(NewEdges) = 2

HasLogsheetSource ==
    \E d \in Declared : \E si \in DOMAIN d.sources :
        classify_input_type(d.sources[si]) = "LogsheetVariable"

\* the first variable bridge_packages meets is a LogsheetVariable source
MeetsLogsheetSourceFirst ==
    /\ bridgeCall.bridges # <<>>
    /\ bridgeCall.bridges[1].bridges # <<>>
    /\ LET src == as_list(bridgeCall.bridges[1].bridges[1].sources) IN
       /\ src # <<>>
       /\ classify_input_type(src[1]) = "LogsheetVariable"

\* C19: a bridge variable that classifies as LogsheetVariable makes
\* bridge_packages raise NotImplementedError; the call never returns a graph
\* as if that bridge had not been declared.
C19_LogsheetBridgeNotImplemented ==
    IsBridgeCall =>
        /\ HasLogsheetSource => Raised(bridgeCall.out)
        /\ MeetsLogsheetSourceFirst => bridgeCall.out = Raise("NotImplementedError")

Unresolved ==
    UNION {{d.sources[si] : si \in {x \in DOMAIN d.sources :
                                       ~ResolvesAsSource(bridgeCall.before, d.sources[x])}}
           \cup {d.targets[ti] : ti \in {x \in DOMAIN d.targets :
                                       ~ResolvesAsTarget(bridgeCall.before, d.targets[x])}}
           : d \in Declared}

\* C20: when a declared source does not resolve to an OutputVariable node,
\* or a declared target does not resolve to an Unspecified or InputVariable
\* node or does not classify as an InputVariable, bridge_packages ends with
\* an error that names the offending package, runnable and variable.
C20_UnresolvedBridgeRaises ==
    (IsBridgeCall /\ Unresolved # {}) =>
        bridgeCall.out \in {ConfigError(name) : name \in Unresolved}

\* C21: when bridge_packages (or the bridge_dynamic_variables it calls)
\* raises, the config graph is exactly what it was before the call: no
\* promotion and no bridge edge made earlier in the call remains.
C21_FailedBridgeLeavesGraph ==
    (IsBridgeCall /\ Raised(bridgeCall.out)) => dag = bridgeCall.before

-----------------------------------------------------------------------------
(* create_package_dag: the graph of one package's runnables *)

\* runnable_classes
runnable_classes == [process |-> "Process", plot |-> "Plot", stats |-> "Stats"]

\* str(uuid.uuid4()): the id of the next node is new to the graph
new_uuid(g) == Len(g.nodes) + 1

\* package_dag.add_node(id, node = node)
add_node(g, node) == [g EXCEPT !.nodes = Append(g.nodes, node)]

\* package_dag.add_edge(u, v)
add_plain_edge(g, u, v) ==
    [g EXCEPT !.edges = Append(g.edges, [u |-> u, v |-> v, bridge |-> <<>>])]

\* the attrs classify_input_type returns with the class
input_attrs(input) == IF classify_input_type(input) = "Constant" THEN {"value"} ELSE {}

\* lines 219-227: a node for each input, and the edge input -> runnable
RECURSIVE input_loop(_, _, _, _, _)
input_loop(g, runnable_id, runnable_node_name, ins, i) ==
    IF i > Len(ins) THEN g
    ELSE LET id == new_uuid(g)
             node == Node(id, classify_input_type(ins[i].value),
                          Name(runnable_node_name \o <<ins[i].name>>),
                          input_attrs(ins[i].value))
         IN input_loop(add_plain_edge(add_node(g, node), id, runnable_id),
                       runnable_id, runnable_node_name, ins, i + 1)

\* lines 228-234: a node for each output, and the edge runnable -> output
RECURSIVE output_loop(_, _, _, _, _)
output_loop(g, runnable_id, runnable_node_name, outs, i) ==
    IF i > Len(outs) THEN g
    ELSE LET id == new_uuid(g)
             node == Node(id, "OutputVariable",
                          Name(runnable_node_name \o <<outs[i]>>), {})
         IN output_loop(add_plain_edge(add_node(g, node), runnable_id, id),
                        runnable_id, runnable_node_name, outs, i + 1)

\* lines 211-234, for the runnables of one type
RECURSIVE runnable_loop(_, _, _, _, _)
runnable_loop(g, package_name, runnable_class, runnables, i) ==
    IF i > Len(runnables) THEN g
    ELSE LET id == new_uuid(g)
             runnable_node_name == <<package_name, runnables[i].name>>
             g1 == add_node(g, Node(id, runnable_class, Name(runnable_node_name), {}))
             g2 == input_loop(g1, id, runnable_node_name, runnables[i].inputs, 1)
             g3 == output_loop(g2, id, runnable_node_name, runnables[i].outputs, 1)
         IN runnable_loop(g3, package_name, runnable_class, runnables, i + 1)

\* lines 207-234, over the runnable types in dict order
RECURSIVE type_loop(_, _, _, _)
type_loop(g, package_name, package_runnables_dict, i) ==
    IF i > Len(package_runnables_dict) THEN g
    ELSE type_loop(runnable_loop(g, package_name,
                                 runnable_classes[package_runnables_dict[i].type],
                                 package_runnables_dict[i].runnables, 1),
                   package_name, package_runnables_dict, i + 1)

\* variable_nodes[runnable_type][runnable_name]['inputs'][input_var_name];
\* the nodes of a runnable_type are those of its class
target_var_node(g, runnable_class, input_node_name) ==
    LET run == CHOOSE k \in DOMAIN g.nodes :
                   /\ g.nodes[k].tag = runnable_class
                   /\ g.nodes[k].name = Name(SubSeq(input_node_name, 1, 2))
        ins == {k \in DOMAIN g.nodes :
                   /\ g.nodes[k].name = Name(input_node_name)
                   /\ \E e \in SeqToSet(g.edges) :
                         e.u = g.nodes[k].id /\ e.v = g.nodes[run].id}
    IN g.nodes[CHOOSE k \in ins : \A j \in ins : j <= k]

\* lines 242-248: the edge from the output an input names to the input
link_input(g, package_name, runnable_class, runnable_name, input) ==
    LET target == target_var_node(g, runnable_class,
                                  <<package_name, runnable_name, input.name>>)
    IN IF target.tag # "InputVariable" THEN [out |-> RetNone, dag |-> g]
       ELSE LET src == first_node(g, Name(<<package_name>> \o input.value.toks),
                                  {"OutputVariable"})
            IN IF Raised(src) THEN [out |-> src, dag |-> g]
               ELSE [out |-> RetNone, dag |-> add_plain_edge(g, src.node.id, target.id)]

\* lines 241-249, for the inputs of one runnable
RECURSIVE link_input_loop(_, _, _, _, _, _)
link_input_loop(g, package_name, runnable_class, runnable_name, ins, i) ==
    IF i > Len(ins) THEN [out |-> RetNone, dag |-> g]
    ELSE LET r == link_input(g, package_name, runnable_class, runnable_name, ins[i])
         IN IF Raised(r.out) THEN r
            ELSE link_input_loop(r.dag, package_name, runnable_class, runnable_name,
                                 ins, i + 1)

\* lines 239-249, for the runnables of one type
RECURSIVE link_runnable_loop(_, _, _, _, _)
link_runnable_loop(g, package_name, runnable_class, runnables, i) ==
    IF i > Len(runnables) THEN [out |-> RetNone, dag |-> g]
    ELSE LET r == link_input_loop(g, package_name, runnable_class,
                                  runnables[i].name, runnables[i].inputs, 1)
         IN IF Raised(r.out) THEN r
            ELSE link_runnable_loop(r.dag, package_name, runnable_class, runnables, i + 1)

\* lines 237-249, over the runnable types in dict order
RECURSIVE link_type_loop(_, _, _, _)
link_type_loop(g, package_name, package_runnables_dict, i) ==
    IF i > Len(package_runnables_dict) THEN [out |-> RetNone, dag |-> g]
    ELSE LET r == link_runnable_loop(g, package_name,
                                     runnable_classes[package_runnables_dict[i].type],
                                     package_runnables_dict[i].runnables, 1)
         IN IF Raised(r.out) THEN r
            ELSE link_type_loop(r.dag, package_name, package_runnables_dict, i + 1)

\* create_package_dag(package_runnables_dict, package_name): the graph it
\* returns, or the exception that ends it
create_package_dag(package_runnables_dict, package_name) ==
    LET package_dag == type_loop([nodes |-> <<>>, edges |-> <<>>], package_name,
                                 package_runnables_dict, 1)
    IN link_type_loop(package_dag, package_name, package_runnables_dict, 1)

-----------------------------------------------------------------------------
(* SpecPackage: create_package_dag on the runnables of one package *)

Input(name, value) == [name |-> name, value |-> value]
Runnable(name, ins, outs) == [name |-> name, inputs |-> ins, outputs |-> outs]
RunnablesOf(type, runnables) == [type |-> type, runnables |-> runnables]

Step1Out == Name(<<"step1", "out">>)
Step2Out == Name(<<"step2", "out">>)
NoSuchOut == Name(<<"step1", "nope">>)

\* what the input "x" of a runnable can be in its TOML file
InputValues == {Open, Plain, LogsheetVar, Step1Out, Step2Out, NoSuchOut}

\* the inputs of a runnable: none, "x", or "x" and a constant "c"
InputDicts ==
    {<<>>} \cup {<<Input("x", v)>> : v \in InputValues}
           \cup {<<Input("x", v), Input("c", Plain)>> : v \in {Step1Out, Step2Out}}

\* a package of the processes step1 and step2, each with the output "out",
\* with or without a plot that reads an output
PackageInputs ==
    {<< RunnablesOf("process", <<Runnable("step1", i1, <<"out">>),
                                 Runnable("step2", i2, <<"out">>)>>) >> \o plots :
        i1 \in InputDicts, i2 \in InputDicts,
        plots \in {<<>>,
                   <<RunnablesOf("plot",
                        <<Runnable("plot1", <<Input("x", Step2Out)>>, <<>>)>>)>>}}

InitPackage ==
    /\ StoreIdle
    /\ EvalIdle
    /\ ValidateIdle
    /\ SchemaIdle
    /\ PipelineIdle
    /\ DagIdle
    /\ DatasetIdle

\* package_dag = create_package_dag(package_runnables_dict, "pkgA"): the
\* graph the caller holds is the one returned; a call that raises leaves none
CreatePackageDag(package_runnables_dict) ==
    LET r == create_package_dag(package_runnables_dict, "pkgA") IN
    /\ dag' = IF Raised(r.out) THEN [nodes |-> <<>>, edges |-> <<>>] ELSE r.dag
    /\ bridgeCall' = [op |-> "create_package_dag", runnables |-> package_runnables_dict,
                      out |-> r.out]
    /\ UNCHANGED <<storeVars, evalVars, validateVars, schemaVars, pipelineVars,
                   datasetVars>>

NextPackage == \E d \in PackageInputs : CreatePackageDag(d)

SpecPackage == InitPackage /\ [][NextPackage]_vars

-----------------------------------------------------------------------------
(* Claims about create_package_dag *)

IsPackageCall == bridgeCall.op = "create_package_dag"
PackageReturned == IsPackageCall /\ ~Raised(bridgeCall.out)

EdgePairs(g) == {<<g.edges[k].u, g.edges[k].v>> : k \in DOMAIN g.edges}

\* the pairs <<a, b>> with a path of at least one edge from a to b
RECURSIVE PathPairs(_)
PathPairs(r) ==
    LET longer == r \cup {<<x[1][1], x[2][2]>> : x \in {y \in r \X r : y[1][2] = y[2][1]}}
    IN IF longer = r THEN r ELSE PathPairs(longer)

IsDag(g) == \A p \in PathPairs(EdgePairs(g)) : p[1] # p[2]

\* some runnable has an input that names an output of the same runnable
NamesOwnOutput(package_runnables_dict) ==
    \E t \in DOMAIN package_runnables_dict :
        \E k \in DOMAIN package_runnables_dict[t].runnables :
            LET rn == package_runnables_dict[t].runnables[k] IN
            \E i \in DOMAIN rn.inputs : \E o \in DOMAIN rn.outputs :
                rn.inputs[i].value = Name(<<rn.name, rn.outputs[o]>>)

\* C24: every graph create_package_dag returns is a directed acyclic graph;
\* a definition whose input references form a cycle, such as a runnable whose
\* input names its own output, is rejected and no cyclic graph is returned.
C24_PackageDagIsAcyclic ==
    IsPackageCall =>
        /\ PackageReturned => IsDag(dag)
        /\ NamesOwnOutput(bridgeCall.runnables) => Raised(bridgeCall.out)

-----------------------------------------------------------------------------
(* Dataset._create_uuid: the id of a new schema row *)

MaxUuid == 4            \* the ids uuid.uuid4() can return are 1..MaxUuid
MaxCollisions == 2      \* colliding candidates followed in one call

UuidSpace == 1..MaxUuid

\* SELECT schema_id FROM data_address_schemas WHERE schema_id = "{uuid_out}"
schema_id_rows(tbl, uuid_out) == SelectSeq(tbl, LAMBDA r : r.schema_id = uuid_out)

SchemaRow(schema_id, levels_ordered, dataset_id, action_id) ==
    [schema_id |-> schema_id, levels_ordered |-> levels_ordered,
     dataset_id |-> dataset_id, action_id |-> action_id]

\* a table with one row for each id of ids
RECURSIVE RowsWithIds(_)
RowsWithIds(ids) ==
    IF ids = {} THEN <<>>
    ELSE LET m == CHOOSE x \in ids : \A y \in ids : x <= y
         IN <<SchemaRow(m, <<>>, "DS1", m)>> \o RowsWithIds(ids \ {m})

InitUuid ==
    /\ StoreIdle
    /\ EvalIdle
    /\ ValidateIdle
    /\ SchemaIdle
    /\ PipelineIdle
    /\ DagIdle
    /\ data_address_schemas \in {RowsWithIds(ids) : ids \in SUBSET UuidSpace}
    /\ dict_schema = [d \in Datasets |-> PyNone]
    /\ conn = FALSE
    /\ uuidCall = NoCall
    /\ datasetCall = NoCall

UuidUnchanged ==
    UNCHANGED <<storeVars, evalVars, validateVars, schemaVars, pipelineVars, dagVars,
                data_address_schemas, dict_schema, conn, datasetCall>>

\* lines 151-152: the call starts with is_unique = False
CreateUuid ==
    /\ IF uuidCall = NoCall THEN TRUE ELSE uuidCall.pc = "returned"
    /\ uuidCall' = [op |-> "_create_uuid", pc |-> "loop", collisions |-> 0]
    /\ UuidUnchanged

\* lines 153-160: one pass of "while not is_unique" with uuid.uuid4() giving
\* candidate; the pass that finds no row is the last one and the call returns
LoopIteration(candidate) ==
    /\ uuidCall # NoCall
    /\ uuidCall.pc = "loop"
    /\ uuidCall.collisions <= MaxCollisions
    /\ uuidCall' =
        IF Len(schema_id_rows(data_address_schemas, candidate)) = 0
        THEN [op |-> "_create_uuid", pc |-> "returned", collisions |-> uuidCall.collisions,
              out |-> RetV(PyInt(candidate))]
        ELSE [op |-> "_create_uuid", pc |-> "loop", collisions |-> uuidCall.collisions + 1]
    /\ UuidUnchanged

NextUuid ==
    \/ CreateUuid
    \/ \E candidate \in UuidSpace : LoopIteration(candidate)

SpecUuid == InitUuid /\ [][NextUuid]_vars

InUuidLoop == uuidCall # NoCall /\ uuidCall.pc = "loop"

\* C22: _create_uuid always ends: it returns an id that no row of
\* data_address_schemas has, or, once the configured number (MaxCollisions)
\* of candidates have collided, it fails with a generation-exhausted error.
\* It is never still drawing candidates after that many collisions.
C22_CreateUuidBounded ==
    /\ InUuidLoop => uuidCall.collisions < MaxCollisions
    /\ (uuidCall # NoCall /\ uuidCall.pc = "returned" /\ ~Raised(uuidCall.out)) =>
           Len(schema_id_rows(data_address_schemas, uuidCall.out.pval.n)) = 0

-----------------------------------------------------------------------------
(* Dataset.create_data_objects: the hierarchy of data objects to create *)

\* isinstance(x, int): bool is a subclass of int
IsInstanceInt(x) == x.t \in {"int", "bool"}

\* lines 178-182: the levels of the hierarchy that are sch, in dict order
RECURSIVE level_loop(_, _, _, _)
level_loop(sch, hierarchy, j, ordered_hierarchy) ==
    IF j > Len(hierarchy.k) THEN [out |-> RetNone, ordered |-> ordered_hierarchy]
    ELSE IF hierarchy.k[j] # sch
        THEN level_loop(sch, hierarchy, j + 1, ordered_hierarchy)
    ELSE IF ~IsInstanceInt(hierarchy.v[j])
        THEN [out |-> Raise("ValueError"), ordered |-> ordered_hierarchy]
    ELSE level_loop(sch, hierarchy, j + 1, Append(ordered_hierarchy, hierarchy.k[j]))

\* lines 177-182: ordered_hierarchy is filled in the order of the schema
RECURSIVE schema_loop(_, _, _, _)
schema_loop(schema, hierarchy, i, ordered_hierarchy) ==
    IF i > Len(schema) THEN [out |-> RetNone, ordered |-> ordered_hierarchy]
    ELSE LET r == level_loop(schema[i], hierarchy, 1, ordered_hierarchy) IN
         IF Raised(r.out) THEN r
         ELSE schema_loop(schema, hierarchy, i + 1, r.ordered)

\* lines 184-188: a Python list has no attribute "indexof", so the first
\* pass of the loop ends the call
order_loop(schema, ordered_hierarchy) ==
    IF ordered_hierarchy = <<>> THEN RetNone ELSE Raise("AttributeError")

\* lines 172-188, on self.schema and the hierarchy dict
create_data_objects(schema, hierarchy) ==
    LET v == validate_schema(schema) IN
    IF Raised(v) THEN v
    ELSE LET r == schema_loop(schema.e, hierarchy, 1, <<>>) IN
         IF Raised(r.out) THEN r.out
         ELSE order_loop(schema.e, r.ordered)

-----------------------------------------------------------------------------
(* SpecHierarchy: create_data_objects on datasets with a schema *)

SubjectType == PyType("Subject")
TrialType == PyType("Trial")
VisitType == PyType("Visit")

\* self.schema of a dataset
DatasetSchemas ==
    { PyNone,
      PyList(<<>>),
      PyList(<<DatasetType, SubjectType>>),
      PyList(<<DatasetType, SubjectType, TrialType>>),
      PyList(<<DatasetType, TrialType, SubjectType>>),
      PyList(<<SubjectType, TrialType>>) }

Hierarchies ==
    { PyDict(<<>>, <<>>),
      PyDict(<<SubjectType>>, <<PyInt(2)>>),
      PyDict(<<TrialType>>, <<PyInt(3)>>),
      PyDict(<<SubjectType, TrialType>>, <<PyInt(2), PyInt(3)>>),
      PyDict(<<TrialType, SubjectType>>, <<PyInt(3), PyInt(2)>>),
      PyDict(<<SubjectType, TrialType>>, <<PyInt(2), PyStr("three")>>),
      PyDict(<<TrialType, SubjectType>>, <<PyInt(3), PyNone>>),
      PyDict(<<SubjectType>>, <<PyBool(TRUE)>>),
      PyDict(<<VisitType>>, <<PyInt(2)>>),
      PyDict(<<VisitType, SubjectType>>, <<PyStr("two"), PyInt(2)>>) }

InitHierarchy ==
    /\ StoreIdle
    /\ EvalIdle
    /\ ValidateIdle
    /\ SchemaIdle
    /\ PipelineIdle
    /\ DagIdle
    /\ data_address_schemas = <<>>
    /\ dict_schema \in [Datasets -> DatasetSchemas]
    /\ conn = FALSE
    /\ uuidCall = NoCall
    /\ datasetCall = NoCall

\* d.create_data_objects(hierarchy): no object and no graph is made
CreateDataObjects(d, hierarchy) ==
    /\ datasetCall' = [op |-> "create_data_objects", obj |-> d, hierarchy |-> hierarchy,
                       out |-> create_data_objects(dict_schema[d], hierarchy)]
    /\ UNCHANGED <<storeVars, evalVars, validateVars, schemaVars, pipelineVars, dagVars,
                   data_address_schemas, dict_schema, conn, uuidCall>>

NextHierarchy == \E d \in Datasets, hierarchy \in Hierarchies : CreateDataObjects(d, hierarchy)

SpecHierarchy == InitHierarchy /\ [][NextHierarchy]_vars

IsHierarchyCall == datasetCall.op = "create_data_objects"

\* the position of a kind in a schema, 0 when the schema does not hold it
SchemaPosition(schema, kind) ==
    IF \E i \in DOMAIN schema : schema[i] = kind
    THEN CHOOSE i \in DOMAIN schema : schema[i] = kind /\ \A j \in 1..(i - 1) : schema[j] # kind
    ELSE 0

\* the hierarchy names two levels of the schema, the deeper one first
OutOfSchemaOrder(schema, hierarchy) ==
    \E i, j \in DOMAIN hierarchy.k :
        /\ i < j
        /\ SchemaPosition(schema, hierarchy.k[i]) > 0
        /\ SchemaPosition(schema, hierarchy.k[j]) > 0
        /\ SchemaPosition(schema, hierarchy.k[i]) > SchemaPosition(schema, hierarchy.k[j])

\* a valid schema, and a count for every level of it the hierarchy names
WellFormedHierarchy(schema, hierarchy) ==
    /\ validate_schema(schema) = RetNone
    /\ \A j \in DOMAIN hierarchy.k :
        SchemaPosition(schema.e, hierarchy.k[j]) > 0 => IsInstanceInt(hierarchy.v[j])

\* C23: a hierarchy that names the levels of the schema out of schema order
\* is rejected with the structural error ("Hierarchy is out of order!", a
\* ValueError) instead of being accepted, so that parent -> child edges only
\* go from an earlier to a strictly later schema position.
C23_HierarchyInSchemaOrder ==
    (IsHierarchyCall
        /\ WellFormedHierarchy(dict_schema[datasetCall.obj], datasetCall.hierarchy)
        /\ OutOfSchemaOrder(dict_schema[datasetCall.obj].e, datasetCall.hierarchy)) =>
        datasetCall.out = Raise("ValueError")

-----------------------------------------------------------------------------
(* Dataset.to_json_schema, from_json_schema and load_schema *)

MaxSaves == 2       \* schemas saved in one behaviour

\* cls.prefix
prefix(cls) ==
    CASE cls.c = "Dataset" -> "DS"
      [] cls.c = "Subject" -> "SB"
      [] cls.c = "Visit" -> "VS"
      [] cls.c = "Trial" -> "TR"
      [] cls.c = "Variable" -> "VR"
      [] cls.c = "Subset" -> "SS"
      [] OTHER -> "US"

\* self._get_subclasses(ros.DataObject): the kinds of data object, each once
DataObjectClasses ==
    <<DatasetType, SubjectType, VisitType, TrialType, VariableType>>

\* self._prefix_to_class(prefix): the research object kind with that prefix
ResearchObjectClasses == DataObjectClasses \o <<PyType("Subset"), UserType>>

prefix_to_class(p) ==
    LET hits == SelectSeq(ResearchObjectClasses, LAMBDA cls : prefix(cls) = p)
    IN IF hits = <<>> THEN Raise("ValueError") ELSE RetV(hits[1])

\* JSON text is a sequence of tokens: brackets, commas and string literals
JsonOpen == [tok |-> "["]
JsonClose == [tok |-> "]"]
JsonComma == [tok |-> ","]
JsonString(s) == [tok |-> "string", s |-> s]

\* json.dumps of a list of str: '["DS", "SB"]'
RECURSIVE json_dumps_items(_, _)
json_dumps_items(strs, i) ==
    IF i > Len(strs) THEN <<>>
    ELSE (IF i > 1 THEN <<JsonComma>> ELSE <<>>)
             \o <<JsonString(strs[i])>> \o json_dumps_items(strs, i + 1)

json_dumps(strs) == <<JsonOpen>> \o json_dumps_items(strs, 1) \o <<JsonClose>>

\* json.loads of the text of an array of strings: the list, or a decode error
RECURSIVE json_loads_items(_, _, _)
json_loads_items(text, i, acc) ==
    IF i > Len(text) THEN Raise("JSONDecodeError")
    ELSE IF text[i].tok # "string" THEN Raise("JSONDecodeError")
    ELSE IF i + 1 > Len(text) THEN Raise("JSONDecodeError")
    ELSE IF text[i + 1] = JsonClose THEN
        IF i + 1 = Len(text) THEN [kind |-> "return", strs |-> Append(acc, text[i].s)]
        ELSE Raise("JSONDecodeError")
    ELSE IF text[i + 1] = JsonComma
        THEN json_loads_items(text, i + 2, Append(acc, text[i].s))
    ELSE Raise("JSONDecodeError")

json_loads(text) ==
    IF Len(text) < 2 \/ text[1] # JsonOpen THEN Raise("JSONDecodeError")
    ELSE IF text = <<JsonOpen, JsonClose>> THEN [kind |-> "return", strs |-> <<>>]
    ELSE json_loads_items(text, 2, <<>>)

\* lines 126-127: str_schema.append(sch.prefix) for each sch
str_schema_of(schema) == [i \in DOMAIN schema |-> prefix(schema[i])]

\* to_json_schema(schema, action) with schema_id what _create_uuid returned:
\* the value returned and the table once the Action has run its queries
to_json_schema(tbl, id, schema, action_id, schema_id) ==
    IF schema.t = "none" THEN [out |-> RetV(PyList(<<>>)), tbl |-> tbl, stored |-> FALSE]
    ELSE LET json_schema == json_dumps(str_schema_of(schema.e)) IN
         [out |-> [kind |-> "return", json |-> json_schema],
          tbl |-> Append(tbl, SchemaRow(schema_id, json_schema, id, action_id)),
          stored |-> TRUE]

\* mutant: the classes are walked first and the prefixes inside
RECURSIVE class_loop_outer(_, _, _, _, _)
class_loop_outer(str_schema, classes, i, j, types_schema) ==
    IF j > Len(classes) THEN types_schema
    ELSE IF i > Len(str_schema)
        THEN class_loop_outer(str_schema, classes, 1, j + 1, types_schema)
    ELSE class_loop_outer(str_schema, classes, i + 1, j,
             IF str_schema[i] = prefix(classes[j])
             THEN Append(types_schema, classes[j]) ELSE types_schema)

\* lines 141-144: for sch in str_schema: for cls in classes: ...
RECURSIVE class_loop(_, _, _, _, _)
class_loop(str_schema, classes, i, j, types_schema) ==
    IF i > Len(str_schema) THEN types_schema
    ELSE IF j > Len(classes)
        THEN class_loop(str_schema, classes, i + 1, 1, types_schema)
    ELSE class_loop(str_schema, classes, i, j + 1,
             IF str_schema[i] = prefix(classes[j])
             THEN Append(types_schema, classes[j]) ELSE types_schema)

\* lines 136-145
from_json_schema(json_schema) ==
    LET str_schema == json_loads(json_schema) IN
    IF Raised(str_schema) THEN str_schema
    ELSE RetV(PyList(class_loop(str_schema.strs, DataObjectClasses, 1, 1, <<>>)))

\* self._get_time_ordered_result(result, action_col_num = 0): the rows with
\* the most recent Action first; Actions are numbered in the order of creation
RECURSIVE get_time_ordered_result(_)
get_time_ordered_result(result) ==
    IF result = <<>> THEN <<>>
    ELSE LET latest == CHOOSE i \in DOMAIN result :
                           /\ \A j \in DOMAIN result : result[j].action_id <= result[i].action_id
                           /\ \A j \in 1..(i - 1) : result[j].action_id < result[i].action_id
         IN <<result[latest]>> \o
                get_time_ordered_result(
                    [k \in 1..(Len(result) - 1) |->
                        IF k < latest THEN result[k] ELSE result[k + 1]])

\* lines 61-64: schema.append(self._prefix_to_class(prefix)) for each prefix
RECURSIVE prefix_loop(_, _, _)
prefix_loop(prefix_schema, i, schema) ==
    IF i > Len(prefix_schema) THEN RetV(PyList(schema))
    ELSE LET cls == prefix_to_class(prefix_schema[i]) IN
         IF Raised(cls) THEN cls
         ELSE prefix_loop(prefix_schema, i + 1, Append(schema, cls.pval))

\* lines 49-64: the schema load_schema computes for the dataset id; the rows
\* of the second query are all the rows of the Action, in rowid order
load_schema_value(tbl, id) ==
    LET result == SelectSeq(tbl, LAMBDA r : r.dataset_id = id)
        ordered_result == get_time_ordered_result(result)
    IN IF Len(ordered_result) > 0 THEN
           LET most_recent_action_id == ordered_result[1].action_id
               result2 == SelectSeq(tbl, LAMBDA r : r.action_id = most_recent_action_id)
               prefix_schema == json_loads(result2[1].levels_ordered)
           IN IF Raised(prefix_schema) THEN prefix_schema
              ELSE prefix_loop(prefix_schema.strs, 1, <<>>)
       ELSE RetV(PyNone)

\* lines 43-67: conn is a free name of the module; unbound, line 50 raises
\* NameError and the attribute is not touched
load_schema(tbl, id, conn_bound) ==
    IF ~conn_bound THEN Raise("NameError") ELSE load_schema_value(tbl, id)

-----------------------------------------------------------------------------
(* SpecDataset: schemas are saved, read back and loaded *)

\* the schemas handed to to_json_schema
ToJsonSchemas ==
    { PyNone,
      PyList(<<>>),
      PyList(<<DatasetType, SubjectType>>),
      PyList(<<DatasetType, SubjectType, TrialType>>),
      PyList(<<DatasetType, TrialType, SubjectType>>),
      PyList(<<DatasetType, PyType("Subset")>>) }

InitDataset ==
    /\ StoreIdle
    /\ EvalIdle
    /\ ValidateIdle
    /\ SchemaIdle
    /\ PipelineIdle
    /\ DagIdle
    /\ data_address_schemas = <<>>
    /\ dict_schema = [d \in Datasets |-> PyNone]
    /\ conn \in BOOLEAN
    /\ uuidCall = NoCall
    /\ datasetCall = NoCall

DatasetUnchanged ==
    UNCHANGED <<vr_dataobjects, data_values, objDict, lastCall, evalVars, validateVars,
                schemaVars, pipelineVars, dagVars, conn, uuidCall>>

\* the id _create_uuid returns has no row in the table; which of the free
\* ids it is plays no part in what is read back, and the rows of this
\* specification take them in order
new_schema_id(tbl) ==
    CHOOSE u \in 1..(Len(tbl) + 1) : Len(schema_id_rows(tbl, u)) = 0

\* d.to_json_schema(schema, action), with action a new Action or the one of
\* the save before, and then action.execute(); _default_store_obj_attr keeps
\* the schema in d.__dict__
ToJsonSchema(d, schema, new_action) ==
    LET action_id == IF new_action THEN nextAction ELSE nextAction - 1
        r == to_json_schema(data_address_schemas, d, schema, action_id,
                            new_schema_id(data_address_schemas))
    IN
    /\ action_id >= 1
    /\ action_id <= MaxSaves
    /\ Len(data_address_schemas) < MaxSaves
    /\ data_address_schemas' = r.tbl
    /\ dict_schema' = IF r.stored THEN [dict_schema EXCEPT ![d] = schema] ELSE dict_schema
    /\ nextAction' = action_id + 1
    /\ datasetCall' = [op |-> "to_json_schema", obj |-> d, schema |-> schema,
                       action |-> action_id, out |-> r.out]
    /\ DatasetUnchanged

\* from_json_schema(json_schema) on the text of a row
FromJsonSchema(json_schema) ==
    /\ datasetCall' = [op |-> "from_json_schema", json |-> json_schema,
                       out |-> from_json_schema(json_schema)]
    /\ UNCHANGED <<nextAction, data_address_schemas, dict_schema>>
    /\ DatasetUnchanged

\* d.load_schema()
LoadSchema(d) ==
    LET r == load_schema(data_address_schemas, d, conn) IN
    /\ dict_schema' = IF Raised(r) THEN dict_schema ELSE [dict_schema EXCEPT ![d] = r.pval]
    /\ datasetCall' = [op |-> "load_schema", obj |-> d,
                       out |-> IF Raised(r) THEN r ELSE RetNone]
    /\ UNCHANGED <<nextAction, data_address_schemas>>
    /\ DatasetUnchanged

NextDataset ==
    \/ \E d \in Datasets, schema \in ToJsonSchemas, new_action \in BOOLEAN :
          ToJsonSchema(d, schema, new_action)
    \/ \E k \in DOMAIN data_address_schemas :
          FromJsonSchema(data_address_schemas[k].levels_ordered)
    \/ \E d \in Datasets : LoadSchema(d)

SpecDataset == InitDataset /\ [][NextDataset]_vars

-----------------------------------------------------------------------------
(* Claims about the schema of a dataset *)

\* text is the JSON array of the strings strs, in order
IsJsonArrayOf(text, strs) ==
    /\ Len(text) = IF strs = <<>> THEN 2 ELSE 2 * Len(strs) + 1
    /\ text[1] = JsonOpen
    /\ text[Len(text)] = JsonClose
    /\ \A i \in DOMAIN strs : text[2 * i] = JsonString(strs[i])
    /\ \A i \in 1..(Len(strs) - 1) : text[2 * i + 1] = JsonComma

\* a list of DataObject kinds with distinct prefixes
IsDataObjectSchema(schema) ==
    /\ schema.t = "list"
    /\ \A i \in DOMAIN schema.e : schema.e[i] \in SeqToSet(DataObjectClasses)
    /\ \A i, j \in DOMAIN schema.e : i # j => prefix(schema.e[i]) # prefix(schema.e[j])

\* C25: for a non-null schema of DataObject kinds with distinct prefixes,
\* to_json_schema returns the JSON array of the kinds' prefixes in order, and
\* from_json_schema applied to that text returns the same kinds in the same
\* order.
C25_SchemaRoundTrip ==
    /\ (datasetCall.op = "to_json_schema" /\ IsDataObjectSchema(datasetCall.schema)) =>
        /\ ~Raised(datasetCall.out)
        /\ IsJsonArrayOf(datasetCall.out.json,
                         [i \in DOMAIN datasetCall.schema.e |->
                             prefix(datasetCall.schema.e[i])])
    /\ datasetCall.op = "from_json_schema" =>
        \A schema \in ToJsonSchemas :
            (/\ IsDataObjectSchema(schema)
             /\ IsJsonArrayOf(datasetCall.json,
                              [i \in DOMAIN schema.e |-> prefix(schema.e[i])]))
                => datasetCall.out = RetV(schema)

\* a schema of three kinds, not in the order of the class list, read back
C25_Witness ==
    /\ datasetCall.op = "from_json_schema"
    /\ datasetCall.out = RetV(PyList(<<DatasetType, TrialType, SubjectType>>))
    /\ \E k \in DOMAIN data_address_schemas :
        data_address_schemas[k].levels_ordered = datasetCall.json

RowsOfDataset(d) == SelectSeq(data_address_schemas, LAMBDA r : r.dataset_id = d)

\* C26: load_schema sets the schema of dataset D to the schema stored for D
\* by the most recent Action that saved a schema for D, and to None when no
\* schema was saved for D, also when one Action saved schemas for more than
\* one dataset.
C26_LoadSchemaMostRecent ==
    datasetCall.op = "load_schema" =>
        LET d == datasetCall.obj
            rows == RowsOfDataset(d)
        IN /\ datasetCall.out = RetNone
           /\ IF rows = <<>> THEN dict_schema[d] = PyNone
              ELSE /\ dict_schema[d].t = "list"
                   /\ IsJsonArrayOf(rows[Len(rows)].levels_ordered,
                                    [i \in DOMAIN dict_schema[d].e |->
                                        prefix(dict_schema[d].e[i])])

-----------------------------------------------------------------------------
(* SpecAssign: a condition tree is validated and, once accepted, evaluated *)

\* every data object holds a (value, found) pair for VR1
PairStore == [n \in Nodes |-> PyList(<<PyInt(MaxInt), PyBool(TRUE)>>)]

InitAssign ==
    /\ G \in Graphs
    /\ vr_dataobjects = AssocRows(PairStore)
    /\ data_values = ValueRows(PairStore)
    /\ objDict = [d \in Nodes |-> default_attrs \cup {VrName("VR1")}]
    /\ nextAction = Len(NodeSeq) + 1
    /\ lastCall = NoCall
    /\ conditions \in ValidateInputs
    /\ evalCall = NoCall
    /\ objects = {"VR1", "VR2"}
    /\ validateCall = NoCall
    /\ SchemaIdle
    /\ RestIdle

\* the accepted value is now Subset.conditions: meets_conditions runs on it
EvaluateAccepted(node, ord) ==
    /\ IsValidateCall
    /\ Accepted(validateCall)
    /\ MeetsConditions(node, ord)

NextAssign ==
    \/ ValidateConditions
    \/ \E node \in Nodes, ord \in AncOrders(G) : EvaluateAccepted(node, ord)

SpecAssign == InitAssign /\ [][NextAssign]_vars

\* every interior node is a dict with exactly one of the keys "and" and "or",
\* mapped to a list; every leaf is a list of three elements with a known
\* operator
RECURSIVE StructurallyEvaluable(_)
StructurallyEvaluable(c) ==
    IF c.t = "dict" THEN
        /\ c.k \in {<<"and">>, <<"or">>}
        /\ c.v[1].t = "list"
        /\ \A i \in DOMAIN c.v[1].e : StructurallyEvaluable(c.v[1].e[i])
    ELSE
        /\ c.t = "list"
        /\ Len(c.e) = 3
        /\ c.e[2].t = "str"
        /\ c.e[2].s \in logic_options

\* the exceptions of indexing a tree node that is no three-element list
ShapeErrors == {Raise("KeyError"), Raise("IndexError")}

\* C27: every condition tree other than the default that validate_conditions
\* accepts is structurally evaluable, so meets_conditions never fails on the
\* shape of an accepted tree.
C27_AcceptedIsEvaluable ==
    (IsValidateCall /\ Accepted(validateCall) /\ ~PyEq(conditions, default_conditions)) =>
        /\ StructurallyEvaluable(conditions)
        /\ evalCall.op = "meets_conditions" => evalCall.out \notin ShapeErrors

\* what a call leaves to its caller: the bool or the exception of
\* meets_conditions, the set of nodes of the subgraph of get_subset
Outcome(r) == IF r.kind = "return" /\ "nodes" \in DOMAIN r THEN SeqToSet(r.nodes) ELSE r

\* C28: meets_conditions and get_subset give the same result whatever the
\* order in which nx.ancestors hands out the ancestors during the fallback,
\* also when several ancestors hold different values of the variable.
C28_AncestorOrderIrrelevant ==
    /\ evalCall.op = "meets_conditions" =>
        \A ord \in AncOrders(G) :
            meets_conditions(evalCall.node, conditions, ord) = evalCall.out
    /\ evalCall.op = "get_subset" =>
        \A ord \in AncOrders(G) :
            Outcome(get_subset(evalCall.sorted, ord)) = Outcome(evalCall.out)

====
